---- MODULE Spec2Model ----
(***************************************************************************)
(* A model of the JSON parser with source map of src/utils/jsonParser.ts   *)
(* and of the editor/viewer synchronisation that consumes its result.      *)
(*                                                                         *)
(* Text is a sequence of one-character strings (one per UTF-16 code unit); *)
(* offsets are zero-based as in the source, so input[i] of the source is   *)
(* CharAt(input, i) here.                                                  *)
(***************************************************************************)
EXTENDS Integers, Sequences, FiniteSets, TLC

-----------------------------------------------------------------------------
(* Characters and text                                                     *)

\* The value of input[i] when i is not an index of input.
Undefined == "undefined"

Digits == {"0", "1", "2", "3", "4", "5", "6", "7", "8", "9"}

DigitVal(ch) ==
  CASE ch = "0" -> 0 [] ch = "1" -> 1 [] ch = "2" -> 2 [] ch = "3" -> 3
    [] ch = "4" -> 4 [] ch = "5" -> 5 [] ch = "6" -> 6 [] ch = "7" -> 7
    [] ch = "8" -> 8 [] ch = "9" -> 9

DigitChar(n) ==
  CASE n = 0 -> "0" [] n = 1 -> "1" [] n = 2 -> "2" [] n = 3 -> "3"
    [] n = 4 -> "4" [] n = 5 -> "5" [] n = 6 -> "6" [] n = 7 -> "7"
    [] n = 8 -> "8" [] n = 9 -> "9"

\* The element of a set of one element: Only({e(x) : x \in {v}}) is e(v)
\* with v worked out once.
Only(S) == CHOOSE x \in S : TRUE

Min(a, b) == IF a < b THEN a ELSE b

CharAt(s, k) == IF k >= 0 /\ k < Len(s) THEN s[k + 1] ELSE Undefined

\* String.prototype.slice(a, b) for 0 <= a: the code units at offsets a..b-1
\* that exist.
Slice(s, a, b) == SubSeq(s, a + 1, Min(b, Len(s)))

\* `${index}`: the decimal digits of a natural number.
RECURSIVE NatToString(_)
NatToString(n) ==
  IF n < 10 THEN <<DigitChar(n)>>
  ELSE NatToString(n \div 10) \o <<DigitChar(n % 10)>>

RECURSIVE DigitsToNat(_)
DigitsToNat(ds) ==
  IF ds = <<>> THEN 0
  ELSE 10 * DigitsToNat(SubSeq(ds, 1, Len(ds) - 1)) + DigitVal(ds[Len(ds)])

AllDigits(ds) == \A k \in 1..Len(ds) : ds[k] \in Digits

\* The first position of a character of set cs in s, or 0.
FirstIn(s, cs) ==
  IF \E k \in 1..Len(s) : s[k] \in cs
  THEN CHOOSE k \in 1..Len(s) : s[k] \in cs /\ \A j \in 1..(k - 1) : s[j] \notin cs
  ELSE 0

-----------------------------------------------------------------------------
(* JsonValue (src/types.ts)                                                *)

Null == [t |-> "null"]
Bool(b) == [t |-> "bool", v |-> b]
Str(s) == [t |-> "str", v |-> s]
\* A number is m * 10^e with m not divisible by 10 (0 is m = 0, e = 0).
Num(m, e) == [t |-> "num", m |-> m, e |-> e]
\* An object is its members in insertion order, an array its elements.
Obj(members) == [t |-> "obj", v |-> members]
Arr(elems) == [t |-> "arr", v |-> elems]

RECURSIVE Normalize(_, _)
Normalize(m, e) ==
  IF m = 0 THEN Num(0, 0)
  ELSE IF m % 10 = 0 THEN Normalize(m \div 10, e + 1)
  ELSE Num(m, e)

NaN == [t |-> "NaN"]

\* Infinity and -Infinity, the values of the number type beyond its range.
Inf(neg) == [t |-> "inf", neg |-> neg]

\* The number of decimal digits of a natural number.
RECURSIVE NumDigits(_)
NumDigits(n) == IF n < 10 THEN 1 ELSE 1 + NumDigits(n \div 10)

RECURSIVE Pow10(_)
Pow10(n) == IF n = 0 THEN 1 ELSE 10 * Pow10(n - 1)

\* The largest decimal exponent of a double, and the first nine digits of
\* the largest double, 1.7976931348623157e308.
MaxExponent10 == 308
MaxValueDigits == 179769313

\* mag * 10^ev (mag of at most nine digits) is beyond the largest double, so
\* that the conversion rounds it to Infinity.
Overflows(mag, ev) ==
  /\ mag # 0
  /\ LET exp10 == NumDigits(mag) + ev - 1 IN
     \/ exp10 > MaxExponent10
     \/ exp10 = MaxExponent10 /\ mag * Pow10(9 - NumDigits(mag)) > MaxValueDigits

\* The decimal exponent of the smallest double, 4.9e-324, and the first nine
\* digits of half of it, 2.47032822e-324.
MinExponent10 == 0 - 324
HalfMinValueDigits == 247032822

\* mag * 10^ev is at most half the smallest double, so that the conversion
\* rounds it to 0.
Underflows(mag, ev) ==
  /\ mag # 0
  /\ LET exp10 == NumDigits(mag) + ev - 1 IN
     \/ exp10 < MinExponent10
     \/ exp10 = MinExponent10 /\ mag * Pow10(9 - NumDigits(mag)) <= HalfMinValueDigits

\* The digits of a digit run without its leading zeros and without its
\* trailing zeros, and the number of the trailing zeros left out.
RECURSIVE SignificantDigits(_)
SignificantDigits(ds) ==
  IF ds = <<>> THEN [digits |-> <<>>, zeros |-> 0]
  ELSE IF Head(ds) = "0" THEN SignificantDigits(Tail(ds))
  ELSE IF ds[Len(ds)] = "0"
  THEN LET r == SignificantDigits(SubSeq(ds, 1, Len(ds) - 1)) IN
       [digits |-> r.digits, zeros |-> r.zeros + 1]
  ELSE [digits |-> ds, zeros |-> 0]

\* Number(numStr): StringToNumber on a decimal literal. NaN unless the text is
\* [+-] digits [. digits] [e [+-] digits] with a digit in the mantissa and,
\* when there is an exponent marker, a digit in the exponent.
Number(s) ==
  LET signed == s # <<>> /\ s[1] \in {"-", "+"}
      neg == s # <<>> /\ s[1] = "-"
      body == IF signed THEN Tail(s) ELSE s
      ePos == FirstIn(body, {"e", "E"})
      mant == IF ePos = 0 THEN body ELSE SubSeq(body, 1, ePos - 1)
      expo == IF ePos = 0 THEN <<>> ELSE SubSeq(body, ePos + 1, Len(body))
      dot == FirstIn(mant, {"."})
      ip == IF dot = 0 THEN mant ELSE SubSeq(mant, 1, dot - 1)
      fp == IF dot = 0 THEN <<>> ELSE SubSeq(mant, dot + 1, Len(mant))
      eSigned == expo # <<>> /\ expo[1] \in {"-", "+"}
      eNeg == expo # <<>> /\ expo[1] = "-"
      eDigits == IF eSigned THEN Tail(expo) ELSE expo
      validMant == AllDigits(ip) /\ AllDigits(fp) /\ (ip # <<>> \/ fp # <<>>)
      validExp == ePos = 0 \/ (eDigits # <<>> /\ AllDigits(eDigits))
      sig == SignificantDigits(ip \o fp)
      mag == DigitsToNat(sig.digits)
      ev == (IF eNeg THEN 0 - DigitsToNat(eDigits) ELSE DigitsToNat(eDigits))
              - Len(fp) + sig.zeros
  IN IF s = <<>> THEN Num(0, 0)
     ELSE IF validMant /\ validExp
          THEN IF Overflows(mag, ev) THEN Inf(neg)
               ELSE IF Underflows(mag, ev) THEN Num(0, 0)
               ELSE Normalize(IF neg THEN 0 - mag ELSE mag, ev)
          ELSE NaN

\* An array index as a property key: the canonical decimal text of a number
\* below 2^32 - 1.
MaxIndexDigits == <<"4", "2", "9", "4", "9", "6", "7", "2", "9", "4">>

RECURSIVE DigitsLess(_, _)
DigitsLess(a, b) ==
  /\ a # <<>>
  /\ \/ DigitVal(Head(a)) < DigitVal(Head(b))
     \/ Head(a) = Head(b) /\ DigitsLess(Tail(a), Tail(b))

IndexLess(a, b) == Len(a) < Len(b) \/ (Len(a) = Len(b) /\ DigitsLess(a, b))

IsArrayIndex(key) ==
  /\ key # <<>> /\ AllDigits(key)
  /\ Len(key) = 1 \/ Head(key) # "0"
  /\ IndexLess(key, MaxIndexDigits) \/ key = MaxIndexDigits

ProtoKey == <<"_", "_", "p", "r", "o", "t", "o", "_", "_">>

\* result[key] = value on a plain object, the members in the order in which
\* Object.keys enumerates them: an existing member keeps its place, a new
\* array index goes before the larger indices and all other keys, any other
\* new key goes last. The key __proto__ is the prototype accessor and makes
\* no member.
ObjSet(members, key, value) ==
  IF key = ProtoKey THEN members
  ELSE IF \E k \in 1..Len(members) : members[k].k = key
  THEN [k \in 1..Len(members) |->
          IF members[k].k = key THEN [k |-> key, v |-> value] ELSE members[k]]
  ELSE IF IsArrayIndex(key)
  THEN LET before == {k \in 1..Len(members) :
                        IsArrayIndex(members[k].k) /\ IndexLess(members[k].k, key)}
           n == Cardinality(before)
       IN SubSeq(members, 1, n) \o <<[k |-> key, v |-> value]>>
            \o SubSeq(members, n + 1, Len(members))
  ELSE Append(members, [k |-> key, v |-> value])

-----------------------------------------------------------------------------
(* JsonSourceMap (src/types.ts): a Map from path to SourceLocation, kept   *)
(* as its entries in insertion order.                                      *)

EmptyMap == <<>>

MapHas(m, p) == \E k \in 1..Len(m) : m[k].path = p

MapGet(m, p) == m[CHOOSE k \in 1..Len(m) : m[k].path = p].loc

\* Map.prototype.set: a present key keeps its position and gets the new value.
MapSet(m, p, loc) ==
  IF MapHas(m, p)
  THEN [k \in 1..Len(m) |->
          IF m[k].path = p THEN [path |-> p, loc |-> loc] ELSE m[k]]
  ELSE Append(m, [path |-> p, loc |-> loc])

MapKeys(m) == {m[k].path : k \in 1..Len(m)}

-----------------------------------------------------------------------------
(* Code units produced by a \u escape                                      *)

HexVal(ch) ==
  IF ch \in Digits THEN DigitVal(ch)
  ELSE CASE ch \in {"a", "A"} -> 10 [] ch \in {"b", "B"} -> 11
         [] ch \in {"c", "C"} -> 12 [] ch \in {"d", "D"} -> 13
         [] ch \in {"e", "E"} -> 14 [] ch \in {"f", "F"} -> 15
         [] OTHER -> 0 - 1

IsHex(ch) == HexVal(ch) >= 0

RECURSIVE HexToNat(_)
HexToNat(ds) ==
  IF ds = <<>> THEN 0
  ELSE 16 * HexToNat(SubSeq(ds, 1, Len(ds) - 1)) + HexVal(ds[Len(ds)])

RECURSIVE HexPrefix(_)
HexPrefix(s) ==
  IF s # <<>> /\ IsHex(Head(s)) THEN <<Head(s)>> \o HexPrefix(Tail(s)) ELSE <<>>

RECURSIVE TrimStart(_)
TrimStart(s) ==
  IF s # <<>> /\ Head(s) \in {" ", "\t", "\n", "\r"} THEN TrimStart(Tail(s)) ELSE s

\* parseInt(s, 16): leading white space, a sign and a 0x prefix are skipped,
\* then the longest run of hex digits is converted; NaN when that run is empty.
parseInt16(s) ==
  LET t == TrimStart(s)
      signed == t # <<>> /\ Head(t) \in {"-", "+"}
      neg == t # <<>> /\ Head(t) = "-"
      u == IF signed THEN Tail(t) ELSE t
      pre == Len(u) >= 2 /\ u[1] = "0" /\ u[2] \in {"x", "X"}
      w == IF pre THEN SubSeq(u, 3, Len(u)) ELSE u
      ds == HexPrefix(w)
  IN IF ds = <<>> THEN NaN
     ELSE Num(IF neg THEN 0 - HexToNat(ds) ELSE HexToNat(ds), 0)

\* The characters of the model's texts that have a name here, by code unit.
CodeUnits ==
  << <<9, "\t">>, <<10, "\n">>, <<13, "\r">>, <<32, " ">>, <<34, "\"">>,
     <<44, ",">>, <<45, "-">>, <<46, ".">>, <<48, "0">>, <<49, "1">>,
     <<50, "2">>, <<58, ":">>, <<65, "A">>, <<73, "I">>, <<78, "N">>,
     <<91, "[">>, <<92, "\\">>, <<93, "]">>, <<97, "a">>, <<98, "b">>,
     <<101, "e">>, <<117, "u">>, <<120, "x">>, <<123, "{">>, <<125, "}">> >>

\* String.fromCharCode(n): the one code unit ToUint16(n); NaN converts to 0.
\* A code unit without a name above is written U+<decimal code>.
fromCharCode(n) ==
  LET code == IF n = NaN THEN 0 ELSE n.m % 65536 IN
  IF \E k \in 1..Len(CodeUnits) : CodeUnits[k][1] = code
  THEN CodeUnits[CHOOSE k \in 1..Len(CodeUnits) : CodeUnits[k][1] = code][2]
  ELSE "U+" \o ToString(code)

-----------------------------------------------------------------------------
(* The scanner cursor and the token scanners of parseJsonWithSourceMap.    *)
(* A cursor is the closure's i, line and column. A scanner returns the     *)
(* cursor where it stopped, the value it built and the reason of the error *)
(* it raised ("" when it returned normally).                               *)

getLoc(pos, ln, col) == [i |-> pos, line |-> ln, column |-> col]

Advance(cur, n) == [cur EXCEPT !.i = @ + n, !.column = @ + n]

Ok(cur, v) == [cur |-> cur, v |-> v, err |-> ""]
Raise(cur, reason) == [cur |-> cur, v |-> Null, err |-> reason]

RECURSIVE skipWhitespace(_, _)
skipWhitespace(text, cur) ==
  IF cur.i < Len(text)
  THEN LET char == text[cur.i + 1] IN
       IF char = " " \/ char = "\t"
       THEN skipWhitespace(text, [cur EXCEPT !.column = @ + 1, !.i = @ + 1])
       ELSE IF char = "\n"
       THEN skipWhitespace(text, [cur EXCEPT !.line = @ + 1, !.column = 1, !.i = @ + 1])
       ELSE IF char = "\r"
       THEN skipWhitespace(text, [cur EXCEPT !.i = @ + 1])
       ELSE cur
  ELSE cur

\* escMap[esc] || esc
escMap(esc) ==
  CASE esc = "n" -> "\n" [] esc = "r" -> "\r" [] esc = "t" -> "\t"
    [] esc = "b" -> "U+8" [] esc = "f" -> "U+12"
    [] OTHER -> esc

\* The while loop of parseString, entered with the text built so far.
RECURSIVE parseStringLoop(_, _, _)
parseStringLoop(text, cur, acc) ==
  IF cur.i < Len(text)
  THEN LET char == text[cur.i + 1] IN
       IF char = "\""
       THEN Ok(Advance(cur, 1), acc)
       ELSE IF char = "\\"
       THEN LET c1 == Advance(cur, 1)
                esc == CharAt(text, c1.i)
            IN IF esc = "u"
               THEN parseStringLoop(text, Advance(c1, 5),
                      Append(acc,
                             fromCharCode(parseInt16(Slice(text, c1.i + 1, c1.i + 5)))))
               ELSE parseStringLoop(text, Advance(c1, 1),
                      IF esc = Undefined
                      THEN acc \o <<"u", "n", "d", "e", "f", "i", "n", "e", "d">>
                      ELSE Append(acc, escMap(esc)))
       ELSE parseStringLoop(text,
              IF char = "\n"
              THEN [cur EXCEPT !.line = @ + 1, !.column = 1, !.i = @ + 1]
              ELSE Advance(cur, 1),
              Append(acc, char))
  ELSE Raise(cur, "Unterminated string")

parseString(text, cur) == parseStringLoop(text, Advance(cur, 1), <<>>)

\* The message of expect's error names the target.
ExpectedTarget(target) ==
  CASE target = <<"t", "r", "u", "e">> -> "Expected 'true'"
    [] target = <<"f", "a", "l", "s", "e">> -> "Expected 'false'"
    [] target = <<"n", "u", "l", "l">> -> "Expected 'null'"
    [] target = <<"N", "a", "N">> -> "Expected 'NaN'"
    [] target = <<"I", "n", "f", "i", "n", "i", "t", "y">> -> "Expected 'Infinity'"

\* An expect that leaves the cursor where it is.
expect_NoAdvance(text, cur, target) ==
  IF Slice(text, cur.i, cur.i + Len(target)) = target
  THEN Ok(cur, Null)
  ELSE Raise(cur, ExpectedTarget(target))

expect(text, cur, target) ==
  IF Slice(text, cur.i, cur.i + Len(target)) = target
  THEN Ok(Advance(cur, Len(target)), Null)
  ELSE Raise(cur, ExpectedTarget(target))

RECURSIVE skipDigits(_, _)
skipDigits(text, cur) ==
  IF cur.i < Len(text) /\ text[cur.i + 1] \in Digits
  THEN skipDigits(text, Advance(cur, 1))
  ELSE cur

\* A parseNumber that takes no sign behind the exponent marker.
parseNumber_NoExponentSign(text, cur) ==
  LET start == cur.i
      c1 == IF CharAt(text, cur.i) = "-" THEN Advance(cur, 1) ELSE cur
      c2 == skipDigits(text, c1)
      c3 == IF CharAt(text, c2.i) = "." THEN skipDigits(text, Advance(c2, 1)) ELSE c2
      c4 == IF CharAt(text, c3.i) \in {"e", "E"}
            THEN skipDigits(text, Advance(c3, 1))
            ELSE c3
      numStr == Slice(text, start, c4.i)
      num == Number(numStr)
  IN IF num = NaN THEN Raise(c4, "Invalid number") ELSE Ok(c4, num)

parseNumber(text, cur) ==
  LET start == cur.i
      c1 == IF CharAt(text, cur.i) = "-" THEN Advance(cur, 1) ELSE cur
      c2 == skipDigits(text, c1)
      c3 == IF CharAt(text, c2.i) = "." THEN skipDigits(text, Advance(c2, 1)) ELSE c2
      c4 == IF CharAt(text, c3.i) \in {"e", "E"}
            THEN LET c5 == Advance(c3, 1)
                     c6 == IF CharAt(text, c5.i) \in {"+", "-"} THEN Advance(c5, 1) ELSE c5
                 IN skipDigits(text, c6)
            ELSE c3
      numStr == Slice(text, start, c4.i)
      num == Number(numStr)
  IN IF num = NaN THEN Raise(c4, "Invalid number") ELSE Ok(c4, num)

-----------------------------------------------------------------------------
(* parseJsonWithSourceMap as a machine. A configuration holds the closure's *)
(* variables (input, i, line, column, sourceMap), the activations of        *)
(* parseObject / parseArray that are open (stack, innermost last), the      *)
(* point of control (pc), the argument of the parseValue call about to be   *)
(* made (path), the root value once parsed (data) and the returned          *)
(* ParsedResult (result, meaningful when pc = "done").                      *)
(*                                                                          *)
(* An activation is [kind, path, start, result, initial, index, key]: the   *)
(* path and start location of the parseValue call that entered it, the      *)
(* object or array built so far, the loop's flag and counter, and the key   *)
(* whose value is being parsed.                                             *)

Root == <<"r", "o", "o", "t">>

NoError == [reason |-> "", arg |-> <<>>, line |-> 0, column |-> 0]

Cur(c) == getLoc(c.i, c.line, c.column)

SetCur(c, cur) == [c EXCEPT !.i = cur.i, !.line = cur.line, !.column = cur.column]

Top(c) == c.stack[Len(c.stack)]

\* An error that reports the column counted from 0.
error_ZeroBasedColumn(reason, arg, cur) ==
  [reason |-> reason, arg |-> arg, line |-> cur.line, column |-> cur.column - 1]

\* `${msg} at line ${line}, column ${column}`; arg is the character or target
\* that msg quotes.
error(reason, arg, cur) ==
  [reason |-> reason, arg |-> arg, line |-> cur.line, column |-> cur.column]

\* A catch clause that hands out the map built so far.
Caught_KeepsMap(c, message) ==
  [data |-> Null, sourceMap |-> c.sourceMap, error |-> message]

\* The catch clause: what a thrown error makes the call return.
Caught(c, message) ==
  [data |-> Null, sourceMap |-> EmptyMap, error |-> message]

\* An error raised with the cursor at cur, caught by parseJsonWithSourceMap.
Throw(c, cur, reason, arg) ==
  LET c1 == SetCur(c, cur) IN
  [c1 EXCEPT !.pc = "done", !.result = Caught(c1, error(reason, arg, cur))]

\* A location whose end is the offset of the value's last character.
recordLocation_InclusiveEnd(map, p, start, end) ==
  MapSet(map, p,
         [line |-> start.line, column |-> start.column,
          start |-> start.i, end |-> end.i - 1])

\* A location whose start is taken from the column.
recordLocation_ColumnAsStart(map, p, start, end) ==
  MapSet(map, p,
         [line |-> start.line, column |-> start.column,
          start |-> start.column - 1, end |-> end.i])

\* A location that ends one character behind the value.
recordLocation_EndBehind(map, p, start, end) ==
  MapSet(map, p,
         [line |-> start.line, column |-> start.column,
          start |-> start.i, end |-> end.i + 1])

\* sourceMap.set(path, {line, column, start, end}) at the end of parseValue.
recordLocation(map, p, start, end) ==
  MapSet(map, p,
         [line |-> start.line, column |-> start.column,
          start |-> start.i, end |-> end.i])

\* A parseArray whose index is never incremented.
Resume_NoIndexIncrement(c, value) ==
  IF c.stack = <<>>
  THEN [c EXCEPT !.data = value, !.pc = "eof"]
  ELSE LET f == Top(c)
           n == Len(c.stack)
           cur == skipWhitespace(c.input, Cur(c))
       IN IF f.kind = "obj"
          THEN SetCur([c EXCEPT !.stack[n].result = ObjSet(@, f.key, value),
                                !.stack[n].initial = FALSE,
                                !.pc = "object"], cur)
          ELSE SetCur([c EXCEPT !.stack[n].result = Append(@, value),
                                !.stack[n].initial = FALSE,
                                !.pc = "array"], cur)

\* The caller's statement that receives the value parseValue returns.
Resume(c, value) ==
  IF c.stack = <<>>
  THEN [c EXCEPT !.data = value, !.pc = "eof"]
  ELSE LET f == Top(c)
           n == Len(c.stack)
           cur == skipWhitespace(c.input, Cur(c))
       IN IF f.kind = "obj"
          THEN SetCur([c EXCEPT !.stack[n].result = ObjSet(@, f.key, value),
                                !.stack[n].initial = FALSE,
                                !.pc = "object"], cur)
          ELSE SetCur([c EXCEPT !.stack[n].result = Append(@, value),
                                !.stack[n].index = @ + 1,
                                !.stack[n].initial = FALSE,
                                !.pc = "array"], cur)

\* The end of parseValue for the value that began at start: record, return.
Return(c, p, start, value) ==
  Resume([c EXCEPT !.sourceMap = recordLocation(@, p, start, Cur(c))], value)

Activation(kind, p, start) ==
  [kind |-> kind, path |-> p, start |-> start, result |-> <<>>,
   initial |-> TRUE, index |-> 0, key |-> <<>>]

\* A parseLiteral that returns NaN for the literal NaN.
parseLiteral_KeepsNaN(text, cur) ==
  LET char == CharAt(text, cur.i) IN
  IF char = "\"" THEN LET r == parseString(text, cur) IN
                      IF r.err = "" THEN Ok(r.cur, Str(r.v)) ELSE r
  ELSE IF char = "t" THEN LET r == expect(text, cur, <<"t", "r", "u", "e">>) IN
                      IF r.err = "" THEN Ok(r.cur, Bool(TRUE)) ELSE r
  ELSE IF char = "f" THEN LET r == expect(text, cur, <<"f", "a", "l", "s", "e">>) IN
                      IF r.err = "" THEN Ok(r.cur, Bool(FALSE)) ELSE r
  ELSE IF char = "n" THEN expect(text, cur, <<"n", "u", "l", "l">>)
  ELSE IF char = "N" THEN LET r == expect(text, cur, <<"N", "a", "N">>) IN
                      IF r.err = "" THEN Ok(r.cur, NaN) ELSE r
  ELSE IF char = "I" THEN expect(text, cur, <<"I", "n", "f", "i", "n", "i", "t", "y">>)
  ELSE IF char = "-" /\ CharAt(text, cur.i + 1) = "I"
       THEN expect(text, Advance(cur, 1), <<"I", "n", "f", "i", "n", "i", "t", "y">>)
  ELSE IF char = "-" \/ char \in Digits THEN parseNumber(text, cur)
  ELSE Raise(cur, "Unexpected character")

\* The scanner parseValue's dispatch selects for a value that is no object or
\* array, applied at cur; an "Unexpected character" error when there is none.
parseLiteral(text, cur) ==
  LET char == CharAt(text, cur.i) IN
  IF char = "\"" THEN LET r == parseString(text, cur) IN
                      IF r.err = "" THEN Ok(r.cur, Str(r.v)) ELSE r
  ELSE IF char = "t" THEN LET r == expect(text, cur, <<"t", "r", "u", "e">>) IN
                      IF r.err = "" THEN Ok(r.cur, Bool(TRUE)) ELSE r
  ELSE IF char = "f" THEN LET r == expect(text, cur, <<"f", "a", "l", "s", "e">>) IN
                      IF r.err = "" THEN Ok(r.cur, Bool(FALSE)) ELSE r
  ELSE IF char = "n" THEN expect(text, cur, <<"n", "u", "l", "l">>)
  ELSE IF char = "N" THEN expect(text, cur, <<"N", "a", "N">>)
  ELSE IF char = "I" THEN expect(text, cur, <<"I", "n", "f", "i", "n", "i", "t", "y">>)
  ELSE IF char = "-" /\ CharAt(text, cur.i + 1) = "I"
       THEN expect(text, Advance(cur, 1), <<"I", "n", "f", "i", "n", "i", "t", "y">>)
  ELSE IF char = "-" \/ char \in Digits THEN parseNumber(text, cur)
  ELSE Raise(cur, "Unexpected character")

\* A parseValue that records an object or array when it opens it.
parseValue_RecordsAtOpen(c) ==
  LET start == skipWhitespace(c.input, Cur(c))
      char == CharAt(c.input, start.i)
  IN IF char = "{" \/ char = "["
     THEN SetCur([c EXCEPT !.stack = Append(@, Activation(IF char = "{" THEN "obj" ELSE "arr",
                                                          c.path, start)),
                           !.sourceMap = recordLocation(@, c.path, start, Advance(start, 1)),
                           !.pc = IF char = "{" THEN "object" ELSE "array"],
                 skipWhitespace(c.input, Advance(start, 1)))
     ELSE LET r == parseLiteral(c.input, start) IN
          IF r.err # ""
          THEN Throw(c, r.cur, r.err,
                     IF r.err = "Unexpected character" THEN <<char>> ELSE <<>>)
          ELSE Return(SetCur(c, r.cur), c.path, start, r.v)

\* parseValue(path) up to its return, or up to the first loop test of the
\* parseObject / parseArray it calls.
parseValue(c) ==
  LET start == skipWhitespace(c.input, Cur(c))
      char == CharAt(c.input, start.i)
  IN IF char = "{" \/ char = "["
     THEN SetCur([c EXCEPT !.stack = Append(@, Activation(IF char = "{" THEN "obj" ELSE "arr",
                                                          c.path, start)),
                           !.pc = IF char = "{" THEN "object" ELSE "array"],
                 skipWhitespace(c.input, Advance(start, 1)))
     ELSE LET r == parseLiteral(c.input, start) IN
          IF r.err # ""
          THEN Throw(c, r.cur, r.err,
                     IF r.err = "Unexpected character" THEN <<char>> ELSE <<>>)
          ELSE Return(SetCur(c, r.cur), c.path, start, r.v)

\* A closeComposite that takes the end of the input for the closing bracket.
closeComposite_AcceptsEOF(c, close) ==
  LET f == Top(c)
      n == Len(c.stack)
  IN IF CharAt(c.input, c.i) \notin {close, Undefined}
     THEN Throw(c, Cur(c), IF close = "}" THEN "Expected '}'" ELSE "Expected ']'", <<>>)
     ELSE Return(SetCur([c EXCEPT !.stack = SubSeq(@, 1, n - 1)], Advance(Cur(c), 1)),
                 f.path, f.start,
                 IF f.kind = "obj" THEN Obj(f.result) ELSE Arr(f.result))

\* The statements after parseObject's / parseArray's loop, and the return of
\* the parseValue call that entered it.
closeComposite(c, close) ==
  LET f == Top(c)
      n == Len(c.stack)
  IN IF CharAt(c.input, c.i) # close
     THEN Throw(c, Cur(c), IF close = "}" THEN "Expected '}'" ELSE "Expected ']'", <<>>)
     ELSE Return(SetCur([c EXCEPT !.stack = SubSeq(@, 1, n - 1)], Advance(Cur(c), 1)),
                 f.path, f.start,
                 IF f.kind = "obj" THEN Obj(f.result) ELSE Arr(f.result))

\* The separator test that opens every iteration but the first: the cursor
\* after the comma and the white space behind it, or an error.
separator(text, cur, initial) ==
  IF initial THEN Ok(cur, Null)
  ELSE IF CharAt(text, cur.i) = ","
       THEN Ok(skipWhitespace(text, Advance(cur, 1)), Null)
       ELSE Raise(cur, "Expected ','")

\* path ? `${path}.${key}` : key
childPath(p, key) == IF p # <<>> THEN p \o <<".">> \o key ELSE key

\* One test of parseObject's loop and, when it passes, the iteration up to the
\* call of parseValue for the member's value.
parseObject(c) ==
  LET f == Top(c)
      n == Len(c.stack)
  IN IF c.i < Len(c.input) /\ CharAt(c.input, c.i) # "}"
     THEN LET s == separator(c.input, Cur(c), f.initial) IN
          IF s.err # "" THEN Throw(c, s.cur, s.err, <<>>)
          ELSE IF CharAt(c.input, s.cur.i) = "}" THEN closeComposite(SetCur(c, s.cur), "}")
          ELSE IF CharAt(c.input, s.cur.i) # "\""
               THEN Throw(c, s.cur, "Expected string key", <<>>)
          ELSE LET k == parseString(c.input, s.cur) IN
               IF k.err # "" THEN Throw(c, k.cur, k.err, <<>>)
               ELSE LET c1 == skipWhitespace(c.input, k.cur) IN
                    IF CharAt(c.input, c1.i) # ":"
                    THEN Throw(c, c1, "Expected ':'", <<>>)
                    ELSE SetCur([c EXCEPT !.stack[n].key = k.v,
                                          !.path = childPath(f.path, k.v),
                                          !.pc = "value"],
                                Advance(c1, 1))
     ELSE closeComposite(c, "}")

\* A parseArray without the test for ']' behind the comma.
parseArray_NoBreak(c) ==
  LET f == Top(c)
  IN IF c.i < Len(c.input) /\ CharAt(c.input, c.i) # "]"
     THEN LET s == separator(c.input, Cur(c), f.initial) IN
          IF s.err # "" THEN Throw(c, s.cur, s.err, <<>>)
          ELSE SetCur([c EXCEPT !.path = childPath(f.path, NatToString(f.index)),
                                !.pc = "value"],
                      s.cur)
     ELSE closeComposite(c, "]")

\* One test of parseArray's loop and, when it passes, the iteration up to the
\* call of parseValue for the element.
parseArray(c) ==
  LET f == Top(c)
  IN IF c.i < Len(c.input) /\ CharAt(c.input, c.i) # "]"
     THEN LET s == separator(c.input, Cur(c), f.initial) IN
          IF s.err # "" THEN Throw(c, s.cur, s.err, <<>>)
          ELSE IF CharAt(c.input, s.cur.i) = "]" THEN closeComposite(SetCur(c, s.cur), "]")
          ELSE SetCur([c EXCEPT !.path = childPath(f.path, NatToString(f.index)),
                                !.pc = "value"],
                      s.cur)
     ELSE closeComposite(c, "]")

\* An EOF check that does not skip the white space behind the root value.
checkEOF_NoSkip(c) ==
  LET cur == Cur(c) IN
  IF cur.i < Len(c.input)
  THEN Throw(c, cur, "Unexpected character after JSON data (Expected EOF)",
             <<CharAt(c.input, cur.i)>>)
  ELSE [SetCur(c, cur) EXCEPT
          !.pc = "done",
          !.result = [data |-> c.data, sourceMap |-> c.sourceMap, error |-> NoError]]

\* The strict EOF check and the return of the success result.
checkEOF(c) ==
  LET cur == skipWhitespace(c.input, Cur(c)) IN
  IF cur.i < Len(c.input)
  THEN Throw(c, cur, "Unexpected character after JSON data (Expected EOF)",
             <<CharAt(c.input, cur.i)>>)
  ELSE [SetCur(c, cur) EXCEPT
          !.pc = "done",
          !.result = [data |-> c.data, sourceMap |-> c.sourceMap, error |-> NoError]]

\* The configuration in which parseJsonWithSourceMap(text) starts.
Start(text) ==
  [input |-> text, i |-> 0, line |-> 1, column |-> 1, sourceMap |-> EmptyMap,
   stack |-> <<>>, pc |-> "value", path |-> Root, data |-> Null,
   result |-> [data |-> Null, sourceMap |-> EmptyMap, error |-> NoError]]

Step(c) ==
  CASE c.pc = "value" -> parseValue(c)
    [] c.pc = "object" -> parseObject(c)
    [] c.pc = "array" -> parseArray(c)
    [] c.pc = "eof" -> checkEOF(c)

RECURSIVE Run(_)
Run(c) == IF c.pc = "done" THEN c ELSE Run(Step(c))

\* The call as a function of its argument.
parseJsonWithSourceMap(text) == Run(Start(text)).result

-----------------------------------------------------------------------------
(* JSON.parse, the strict parser of the language, as tryParseJSONL and      *)
(* performParse call it: the JSON grammar of ECMA-404. A result is the      *)
(* value and the offset behind it, or ok = FALSE for a SyntaxError.         *)

Accept(v, pos) == [ok |-> TRUE, v |-> v, i |-> pos]
Reject == [ok |-> FALSE, v |-> Null, i |-> 0]

RECURSIVE strictWhite(_, _)
strictWhite(text, pos) ==
  IF pos < Len(text) /\ text[pos + 1] \in {" ", "\t", "\n", "\r"}
  THEN strictWhite(text, pos + 1) ELSE pos

RECURSIVE strictDigits(_, _)
strictDigits(text, pos) ==
  IF pos < Len(text) /\ text[pos + 1] \in Digits THEN strictDigits(text, pos + 1) ELSE pos

\* The code units below U+0020, which a JSON string holds only escaped.
ControlUnits == {"\t", "\n", "\r"} \cup {"U+" \o ToString(code) : code \in 0..31}

\* The characters of a string from offset i on, up to the closing quote.
RECURSIVE strictChars(_, _, _)
strictChars(text, pos, acc) ==
  IF pos >= Len(text) THEN Reject
  ELSE LET char == text[pos + 1] IN
       IF char = "\"" THEN Accept(Str(acc), pos + 1)
       ELSE IF char \in ControlUnits THEN Reject
       ELSE IF char # "\\" THEN strictChars(text, pos + 1, Append(acc, char))
       ELSE LET esc == CharAt(text, pos + 1)
                hex == Slice(text, pos + 2, pos + 6)
            IN IF esc \in {"\"", "\\", "/", "b", "f", "n", "r", "t"}
               THEN strictChars(text, pos + 2, Append(acc, escMap(esc)))
               ELSE IF esc = "u" /\ Len(hex) = 4 /\ \A k \in 1..4 : IsHex(hex[k])
               THEN strictChars(text, pos + 6, Append(acc, fromCharCode(Num(HexToNat(hex), 0))))
               ELSE Reject

\* -? (0 | [1-9] digits) (. digits+)? ([eE] [+-]? digits+)?
strictNumber(text, pos) ==
  LET a == IF CharAt(text, pos) = "-" THEN pos + 1 ELSE pos
      b == IF CharAt(text, a) = "0" THEN a + 1 ELSE strictDigits(text, a)
      c == IF CharAt(text, b) = "." THEN strictDigits(text, b + 1) ELSE b
      d == IF CharAt(text, c) \in {"e", "E"}
           THEN IF CharAt(text, c + 1) \in {"+", "-"} THEN c + 2 ELSE c + 1
           ELSE c
      e == IF d > c THEN strictDigits(text, d) ELSE c
  IN IF b = a \/ (CharAt(text, b) = "." /\ c = b + 1) \/ (d > c /\ e = d)
     THEN Reject
     ELSE Accept(Number(Slice(text, pos, e)), e)

strictLiteral(text, pos, target, v) ==
  IF Slice(text, pos, pos + Len(target)) = target THEN Accept(v, pos + Len(target)) ELSE Reject

\* CreateDataProperty on the object being built: as ObjSet, but __proto__
\* is a member like any other.
StrictSet(members, key, value) ==
  IF key = ProtoKey
  THEN IF \E k \in 1..Len(members) : members[k].k = key
       THEN [k \in 1..Len(members) |->
               IF members[k].k = key THEN [k |-> key, v |-> value] ELSE members[k]]
       ELSE Append(members, [k |-> key, v |-> value])
  ELSE ObjSet(members, key, value)

RECURSIVE strictValue(_, _)
RECURSIVE strictElements(_, _, _)
RECURSIVE strictMembers(_, _, _)

\* The value that starts at offset i, no white space before it.
strictValue(text, pos) ==
  LET char == CharAt(text, pos) IN
  CASE char = "{" ->
         LET j == strictWhite(text, pos + 1) IN
         IF CharAt(text, j) = "}" THEN Accept(Obj(<<>>), j + 1)
         ELSE strictMembers(text, j, <<>>)
    [] char = "[" ->
         LET j == strictWhite(text, pos + 1) IN
         IF CharAt(text, j) = "]" THEN Accept(Arr(<<>>), j + 1)
         ELSE strictElements(text, j, <<>>)
    [] char = "\"" -> strictChars(text, pos + 1, <<>>)
    [] char = "t" -> strictLiteral(text, pos, <<"t", "r", "u", "e">>, Bool(TRUE))
    [] char = "f" -> strictLiteral(text, pos, <<"f", "a", "l", "s", "e">>, Bool(FALSE))
    [] char = "n" -> strictLiteral(text, pos, <<"n", "u", "l", "l">>, Null)
    [] char = "-" \/ char \in Digits -> strictNumber(text, pos)
    [] OTHER -> Reject

\* The elements of an array from offset i on, up to the closing bracket.
strictElements(text, pos, acc) ==
  LET r == strictValue(text, pos)
      j == strictWhite(text, r.i)
  IN IF ~r.ok THEN Reject
     ELSE IF CharAt(text, j) = "," THEN strictElements(text, strictWhite(text, j + 1), Append(acc, r.v))
     ELSE IF CharAt(text, j) = "]" THEN Accept(Arr(Append(acc, r.v)), j + 1)
     ELSE Reject

\* The members of an object from offset i on, up to the closing bracket.
strictMembers(text, pos, acc) ==
  IF CharAt(text, pos) # "\"" THEN Reject
  ELSE LET k == strictChars(text, pos + 1, <<>>)
           c == strictWhite(text, k.i)
           r == strictValue(text, strictWhite(text, c + 1))
           j == strictWhite(text, r.i)
       IN IF ~k.ok \/ CharAt(text, c) # ":" THEN Reject
          ELSE IF ~r.ok THEN Reject
          ELSE IF CharAt(text, j) = ","
          THEN strictMembers(text, strictWhite(text, j + 1), StrictSet(acc, k.v.v, r.v))
          ELSE IF CharAt(text, j) = "}" THEN Accept(Obj(StrictSet(acc, k.v.v, r.v)), j + 1)
          ELSE Reject

\* JSON.parse(text): the value, or ok = FALSE when it throws a SyntaxError.
JSONparse(text) ==
  Only({LET r == strictValue(t, strictWhite(t, 0)) IN
        IF r.ok /\ strictWhite(t, r.i) = Len(t) THEN r ELSE Reject : t \in {text}})

-----------------------------------------------------------------------------
(* The texts the parser is run on.                                         *)

\* Every text of at most MaxLen characters of Alphabet.
MaxLen == 3

Alphabet == {"{", "}", "[", "]", "\"", ":", ",", " ", "\n", "1", "a", ".", "-", "\\"}

RECURSIVE TextsOfLen(_)
TextsOfLen(n) ==
  IF n = 0 THEN {<<>>}
  ELSE {Append(t, ch) : t \in TextsOfLen(n - 1), ch \in Alphabet}

ShortTexts == UNION {TextsOfLen(n) : n \in 0..MaxLen}

\* Documents of at most MaxNodes values: objects over Keys, arrays, Leaves.
MaxNodes == 4

Keys == {<<"a">>, <<"a", ".", "0">>}

Leaves == {<<"1">>, <<"\"", "b", "\"">>}

Literals ==
  {<<"t", "r", "u", "e">>, <<"f", "a", "l", "s", "e">>, <<"n", "u", "l", "l">>,
   <<"N", "a", "N">>, <<"I", "n", "f", "i", "n", "i", "t", "y">>,
   <<"-", "I", "n", "f", "i", "n", "i", "t", "y">>,
   <<"-", "1", ".", "5", "e", "1">>, <<"\"", "\\", "u", "0", "0", "4", "1", "\"">>}

Quote(key) == <<"\"">> \o key \o <<"\"">>

\* A style is the white space written after an opening bracket, after a
\* colon, after a comma and before a closing bracket, and whether the last
\* member is followed by a comma.
Compact == [open |-> <<>>, colon |-> <<>>, comma |-> <<>>, close |-> <<>>, trailing |-> FALSE]
Spaced == [open |-> <<>>, colon |-> <<" ">>, comma |-> <<" ">>, close |-> <<>>, trailing |-> FALSE]
Pretty == [open |-> <<"\n", " ">>, colon |-> <<" ">>, comma |-> <<"\n", "\t">>,
           close |-> <<"\n">>, trailing |-> FALSE]
Crlf == [open |-> <<"\r", "\n">>, colon |-> <<>>, comma |-> <<"\r", "\n", " ">>,
         close |-> <<"\r", "\n">>, trailing |-> FALSE]
Trailing == [open |-> <<>>, colon |-> <<>>, comma |-> <<>>, close |-> <<" ">>, trailing |-> TRUE]

RECURSIVE Join(_, _)
Join(parts, st) ==
  IF Len(parts) = 1 THEN Head(parts)
  ELSE Head(parts) \o <<",">> \o st.comma \o Join(Tail(parts), st)

Bracket(open, parts, close, st) ==
  IF parts = <<>> THEN <<open, close>>
  ELSE <<open>> \o st.open \o Join(parts, st)
         \o (IF st.trailing THEN <<",">> ELSE <<>>) \o st.close \o <<close>>

RECURSIVE ValueTexts(_, _, _)
RECURSIVE MemberLists(_, _, _, _)

\* The member (object) or element (array) lists whose values have n nodes.
MemberLists(n, st, leaves, object) ==
  IF n = 0 THEN {<<>>}
  ELSE UNION {
         {<<(IF object THEN Quote(k) \o <<":">> \o st.colon ELSE <<>>) \o v>> \o rest :
            k \in (IF object THEN Keys ELSE {<<>>}),
            v \in ValueTexts(j, st, leaves),
            rest \in MemberLists(n - j, st, leaves, object)}
         : j \in 1..n}

\* The texts of the values of exactly n nodes.
ValueTexts(n, st, leaves) ==
  IF n = 0 THEN {}
  ELSE (IF n = 1 THEN leaves ELSE {})
       \cup {Bracket("{", ms, "}", st) : ms \in MemberLists(n - 1, st, leaves, TRUE)}
       \cup {Bracket("[", ms, "]", st) : ms \in MemberLists(n - 1, st, leaves, FALSE)}

\* The documents of at most max nodes, the largest ones in compact style only.
DocumentsUpTo(max) ==
  UNION {ValueTexts(n, Compact, Leaves) : n \in 1..max}
  \cup UNION {ValueTexts(n, st, Leaves) : n \in 1..(max - 1), st \in {Spaced, Pretty, Crlf, Trailing}}

Documents == DocumentsUpTo(MaxNodes)

\* Every literal alone, as a member and as an element.
LiteralDocuments ==
  UNION {ValueTexts(n, st, Literals) : n \in 1..2, st \in {Compact, Pretty}}
  \cup {<<"[">> \o a \o <<",">> \o b \o <<"]">> : a \in Literals, b \in Literals}

\* Documents with white space or other characters before and after.
Before == {<<>>, <<" ">>, <<"\n", "\r", "\t">>}
After == {<<>>, <<" ">>, <<"\n", "\r">>, <<"x">>, <<" ", ",">>, <<"\n", "1">>, <<"}">>}

PaddedDocuments ==
  {b \o d \o a : b \in Before, a \in After,
                 d \in UNION {ValueTexts(n, Compact, Leaves) : n \in 1..2}}

\* Number tokens: the texts of at most MaxNumLen characters of a number, and
\* numbers beyond the range of a double.
MaxNumLen == 4

NumberAlphabet == {"-", "+", "0", "1", ".", "e", "E"}

RECURSIVE NumberTextsOfLen(_)
NumberTextsOfLen(n) ==
  IF n = 0 THEN {<<>>}
  ELSE {Append(t, ch) : t \in NumberTextsOfLen(n - 1), ch \in NumberAlphabet}

NumberTexts == UNION {NumberTextsOfLen(n) : n \in 1..MaxNumLen}

HugeNumbers ==
  {<<"1", "e", "9", "9", "9">>, <<"-", "1", "e", "9", "9", "9">>,
   <<"1", "e", "3", "0", "8">>, <<"2", "e", "3", "0", "8">>,
   <<"1", "e", "-", "9", "9", "9">>, <<"1", "e", "2", "1">>, <<"1", "e", "-", "7">>}

NumberDocuments ==
  HugeNumbers
  \cup {<<"[">> \o n \o <<"]">> : n \in HugeNumbers}
  \cup {<<"[">> \o n \o <<",", " ">> \o m \o <<"]">> :
          n \in NumberTextsOfLen(2), m \in NumberTextsOfLen(2)}

\* Documents with one violation of the grammar, on the first line and on a
\* later one.
BrokenDocuments ==
  {<<"{", "\"", "a", "\"", ":", " ", "}">>,
   <<"{", "\n", " ", "\"", "a", "\"", ":", " ", "}">>,
   <<"{", "\"", "a", "\"", " ", "1", "}">>,
   <<"{", "a", ":", "1", "}">>,
   <<"[", "1", "\n", "1", "]">>,
   <<"[", "\n", "t", "r", "u", "]">>,
   <<"[", "\"", "b", "\n", "\"", ",", " ", "-", "e", "]">>,
   <<"{", "\"", "a", "\"", ":", "1", "\n", " ", "\"", "a", "\"", ":", "1", "}">>}

\* Flat objects of at most MaxKeys members over OrderKeys, in compact style.
MaxKeys == 3

OrderKeys == {<<"2">>, <<"1">>, <<"1", "0">>, <<"0", "1">>, <<"b">>, <<"a">>, ProtoKey}

RECURSIVE KeyLists(_)
KeyLists(n) ==
  IF n = 0 THEN {<<>>}
  ELSE {<<Quote(k) \o <<":", "1">>>> \o rest : k \in OrderKeys, rest \in KeyLists(n - 1)}

KeyDocuments == UNION {{Bracket("{", ms, "}", Compact) : ms \in KeyLists(n)} : n \in 1..MaxKeys}

\* Strings with escapes: a string that starts with \u and goes on with at
\* most MaxEscLen characters of EscapeAlphabet, and a string of at most
\* MaxEscLen characters of LineAlphabet as the first of two elements.
MaxEscLen == 4

EscapeAlphabet == {"1", "A", "g", "\"", "\n"}

LineAlphabet == {"\\", "\n", "\r", "n"}

RECURSIVE TailsOfLen(_, _)
TailsOfLen(n, alphabet) ==
  IF n = 0 THEN {<<>>}
  ELSE {Append(t, ch) : t \in TailsOfLen(n - 1, alphabet), ch \in alphabet}

EscapeTexts ==
  {<<"\"", "\\", "u">> \o t \o <<"\"">> :
     t \in UNION {TailsOfLen(n, EscapeAlphabet) : n \in 0..MaxEscLen}}

LineDocuments ==
  {<<"[", "\"">> \o t \o <<"\"", ",", "1", "]">> :
     t \in UNION {TailsOfLen(n, LineAlphabet) : n \in 0..MaxEscLen}}

\* Documents cut short: the proper prefixes of the documents that are a
\* string, an object or an array with nothing behind it.
Truncatable ==
  {d \in DocumentsUpTo(MaxNodes - 1) \cup LiteralDocuments : Head(d) \in {"{", "[", "\""}}

Truncations == UNION {{SubSeq(d, 1, n) : n \in 1..(Len(d) - 1)} : d \in Truncatable}

\* Objects of three members that repeat a key, one of the keys spelling the
\* path of an element of the other's value.
RepeatMembers ==
  {Quote(<<"a", ".", "0">>) \o <<":">> \o v : v \in Leaves}
  \cup {Quote(<<"a">>) \o <<":", "[">> \o v \o <<"]">> : v \in Leaves}

RepeatDocuments ==
  {Bracket("{", <<a, b, c>>, "}", Compact) :
     a \in RepeatMembers, b \in RepeatMembers, c \in RepeatMembers}

Inputs ==
  ShortTexts \cup Documents \cup LiteralDocuments \cup PaddedDocuments
  \cup NumberTexts \cup NumberDocuments \cup BrokenDocuments \cup KeyDocuments
  \cup EscapeTexts \cup LineDocuments \cup Truncations \cup RepeatDocuments

\* The texts the App is run on: documents of at most MaxAppNodes values, and
\* texts with white space or other characters around a document.
MaxAppNodes == 3

AppTexts ==
  DocumentsUpTo(MaxAppNodes) \cup PaddedDocuments \cup {<<>>, <<" ">>}
  \cup HugeNumbers \cup {<<"[">> \o n \o <<"]">> : n \in HugeNumbers}

-----------------------------------------------------------------------------------------------------------------------------------------------------
(* The App's side (src/unnamed/part_001): what the viewer builds its paths  *)
(* from, and the resolution of a cursor offset to a path.                   *)

\* Number::toString: the decimal digits of m and the position n of the
\* decimal point; plain notation for -6 < n <= 21, exponent notation else.
Zeros(n) == [k \in 1..n |-> "0"]

NumberToString(num) ==
  IF num.m = 0 THEN <<"0">>
  ELSE LET neg == num.m < 0
           ds == NatToString(IF neg THEN 0 - num.m ELSE num.m)
           k == Len(ds)
           n == k + num.e
           body ==
             IF k <= n /\ n <= 21 THEN ds \o Zeros(n - k)
             ELSE IF 0 < n /\ n <= 21
             THEN SubSeq(ds, 1, n) \o <<".">> \o SubSeq(ds, n + 1, k)
             ELSE IF 0 - 6 < n /\ n <= 0 THEN <<"0", ".">> \o Zeros(0 - n) \o ds
             ELSE SubSeq(ds, 1, 1)
                    \o (IF k = 1 THEN <<>> ELSE <<".">> \o SubSeq(ds, 2, k))
                    \o <<"e">> \o (IF n - 1 >= 0 THEN <<"+">> ELSE <<"-">>)
                    \o NatToString(IF n - 1 >= 0 THEN n - 1 ELSE 1 - n)
       IN (IF neg THEN <<"-">> ELSE <<>>) \o body

\* The code units QuoteJSONString writes as \uXXXX: the control characters
\* and the surrogates, as the model writes them (U+<decimal code>).
EscapedCodes == (0..31) \cup (55296..57343)

UnitName(code) == "U+" \o ToString(code)

EscapedUnits == {UnitName(code) : code \in EscapedCodes}

HexDigitChars ==
  <<"0", "1", "2", "3", "4", "5", "6", "7", "8", "9", "a", "b", "c", "d", "e", "f">>

Hex4(code) ==
  <<HexDigitChars[((code \div 4096) % 16) + 1], HexDigitChars[((code \div 256) % 16) + 1],
    HexDigitChars[((code \div 16) % 16) + 1], HexDigitChars[(code % 16) + 1]>>

\* QuoteJSONString for one code unit: the short escapes, \uXXXX for the
\* other control characters and for the surrogates, the unit itself else.
QuoteUnit(ch) ==
  CASE ch = "\"" -> <<"\\", "\"">>
    [] ch = "\\" -> <<"\\", "\\">>
    [] ch = "\n" -> <<"\\", "n">>
    [] ch = "\r" -> <<"\\", "r">>
    [] ch = "\t" -> <<"\\", "t">>
    [] ch = "U+8" -> <<"\\", "b">>
    [] ch = "U+12" -> <<"\\", "f">>
    [] OTHER ->
         IF ch \in EscapedUnits
         THEN <<"\\", "u">> \o Hex4(CHOOSE code \in EscapedCodes : UnitName(code) = ch)
         ELSE <<ch>>

RECURSIVE QuoteJSONString(_)
QuoteJSONString(str) ==
  IF str = <<>> THEN <<>> ELSE QuoteUnit(Head(str)) \o QuoteJSONString(Tail(str))

Spaces(n) == [k \in 1..n |-> " "]

\* JSON.stringify(value, null, 2) at indentation indent: Infinity is
\* written null.
RECURSIVE stringifyAt(_, _)
RECURSIVE stringifyList(_, _, _)
stringifyList(items, object, indent) ==
  IF items = <<>> THEN <<>>
  ELSE Spaces(indent)
         \o (IF object
             THEN <<"\"">> \o QuoteJSONString(Head(items).k) \o <<"\"", ":", " ">>
                    \o stringifyAt(Head(items).v, indent)
             ELSE stringifyAt(Head(items), indent))
         \o (IF Len(items) > 1 THEN <<",">> ELSE <<>>) \o <<"\n">>
         \o stringifyList(Tail(items), object, indent)

stringifyAt(value, indent) ==
  CASE value.t = "null" -> <<"n", "u", "l", "l">>
    [] value.t = "inf" -> <<"n", "u", "l", "l">>
    [] value.t = "bool" -> IF value.v THEN <<"t", "r", "u", "e">>
                           ELSE <<"f", "a", "l", "s", "e">>
    [] value.t = "num" -> NumberToString(value)
    [] value.t = "str" -> <<"\"">> \o QuoteJSONString(value.v) \o <<"\"">>
    [] value.t = "obj" ->
         IF value.v = <<>> THEN <<"{", "}">>
         ELSE <<"{", "\n">> \o stringifyList(value.v, TRUE, indent + 2)
                \o Spaces(indent) \o <<"}">>
    [] value.t = "arr" ->
         IF value.v = <<>> THEN <<"[", "]">>
         ELSE <<"[", "\n">> \o stringifyList(value.v, FALSE, indent + 2)
                \o Spaces(indent) \o <<"]">>

stringify(value) == stringifyAt(value, 0)

\* The paths JsonViewer, ObjectNode and ArrayNode give the nodes they render
\* for a value: "root", `${path}.${key}` and `${path}.${realIndex}`.
RECURSIVE ViewerPaths(_, _)
ViewerPaths(value, p) ==
  {p} \cup
  (IF value.t = "obj"
   THEN UNION {ViewerPaths(value.v[k].v, p \o <<".">> \o value.v[k].k) : k \in 1..Len(value.v)}
   ELSE IF value.t = "arr"
   THEN UNION {ViewerPaths(value.v[k], p \o <<".">> \o NatToString(k - 1)) : k \in 1..Len(value.v)}
   ELSE {})

NoPath == <<>>

\* The loop without the update of minLen: the last entry that qualifies wins.
RECURSIVE scanEntries_NoMinUpdate(_, _, _, _, _)
scanEntries_NoMinUpdate(map, k, cursorIndex, bestPath, minLen) ==
  IF k > Len(map) THEN bestPath
  ELSE LET loc == map[k].loc
           len == loc.end - loc.start
       IN IF cursorIndex >= loc.start /\ cursorIndex <= loc.end
             /\ (minLen = <<>> \/ len < minLen[1])
          THEN scanEntries_NoMinUpdate(map, k + 1, cursorIndex, map[k].path, minLen)
          ELSE scanEntries_NoMinUpdate(map, k + 1, cursorIndex, bestPath, minLen)

\* The for loop of handleCursorMove from entry k on; minLen is <<>> for
\* Infinity and <<n>> for the number n.
\* The loop with a span that excludes its end offset.
RECURSIVE scanEntries_ExclusiveEnd(_, _, _, _, _)
scanEntries_ExclusiveEnd(map, k, cursorIndex, bestPath, minLen) ==
  IF k > Len(map) THEN bestPath
  ELSE LET loc == map[k].loc
           len == loc.end - loc.start
       IN IF cursorIndex >= loc.start /\ cursorIndex < loc.end
             /\ (minLen = <<>> \/ len < minLen[1])
          THEN scanEntries_ExclusiveEnd(map, k + 1, cursorIndex, map[k].path, <<len>>)
          ELSE scanEntries_ExclusiveEnd(map, k + 1, cursorIndex, bestPath, minLen)

RECURSIVE scanEntries(_, _, _, _, _)
scanEntries(map, k, cursorIndex, bestPath, minLen) ==
  IF k > Len(map) THEN bestPath
  ELSE LET loc == map[k].loc
           len == loc.end - loc.start
       IN IF cursorIndex >= loc.start /\ cursorIndex <= loc.end
             /\ (minLen = <<>> \/ len < minLen[1])
          THEN scanEntries(map, k + 1, cursorIndex, map[k].path, <<len>>)
          ELSE scanEntries(map, k + 1, cursorIndex, bestPath, minLen)

\* bestPath at the end of handleCursorMove's loop (NoPath for null).
resolvePath(map, cursorIndex) == scanEntries(map, 1, cursorIndex, NoPath, <<>>)

\* String.prototype.trim on the model's white space.
RECURSIVE TrimEnd(_)
TrimEnd(s) ==
  IF s # <<>> /\ s[Len(s)] \in {" ", "\t", "\n", "\r"}
  THEN TrimEnd(SubSeq(s, 1, Len(s) - 1)) ELSE s

Trim(s) == TrimEnd(TrimStart(s))

-----------------------------------------------------------------------------------------------------------------------------------------------------
(* State: the configuration of the running parse, and the state of the App  *)
(* (input, parsedData, sourceMap, error, format, isLoading, activePath).    *)
(* null is Null for parsedData, NoMap for the source map, NoAppError for    *)
(* the error and NoPath for the active path.                                *)

VARIABLES input, i, line, column, sourceMap, stack, pc, path, data, result,
          parsedData, appSourceMap, appError, format, isLoading, activePath,
          timers, loose,
          jsonl, highlightLine, reads, issued, fileName, node, expanded

parserVars == <<input, i, line, column, sourceMap, stack, pc, path, data, result>>
\* The outcome of a tryParseJSONL call, the line the editor highlights, the
\* file reads that have not ended, the parse request issued last and its
\* number, the name of the uploaded file, and the path and the expanded
\* state of one ObjectNode or ArrayNode.
uiVars == <<jsonl, highlightLine, reads, issued, fileName, node, expanded>>
appVars == <<parsedData, appSourceMap, appError, format, isLoading, activePath,
             timers, loose, uiVars>>
vars == <<input, i, line, column, sourceMap, stack, pc, path, data, result,
          parsedData, appSourceMap, appError, format, isLoading, activePath,
          timers, loose, jsonl, highlightLine, reads, issued, fileName, node,
          expanded>>

NoMap == [isNull |-> TRUE, map |-> EmptyMap]
SomeMap(m) == [isNull |-> FALSE, map |-> m]
NoAppError == [text |-> "", cause |-> NoError]

Conf ==
  [input |-> input, i |-> i, line |-> line, column |-> column,
   sourceMap |-> sourceMap, stack |-> stack, pc |-> pc, path |-> path,
   data |-> data, result |-> result]

Install(c) ==
  /\ input' = c.input /\ i' = c.i /\ line' = c.line /\ column' = c.column
  /\ sourceMap' = c.sourceMap /\ stack' = c.stack /\ pc' = c.pc
  /\ path' = c.path /\ data' = c.data /\ result' = c.result

\* parseJsonWithSourceMap is entered with a text of texts.
Called(texts) ==
  \E text \in texts :
    LET c == Start(text) IN
    /\ input = c.input /\ i = c.i /\ line = c.line /\ column = c.column
    /\ sourceMap = c.sourceMap /\ stack = c.stack /\ pc = c.pc
    /\ path = c.path /\ data = c.data /\ result = c.result

\* The outcome of a call of parseLooseJson: none yet, a returned value or a
\* thrown Error with its message.
NotCalled == [outcome |-> "none", data |-> Null, message |-> NoError]

\* The App as its useState calls construct it, no timer set and
\* parseLooseJson not called.
\* useState<number | null>(null) of highlightLine; a line is 1 at least.
NoLine == 0

\* useState<string | null>(null) of fileName.
NoFile == <<>>

\* No parse request issued yet.
NoRequest == [n |-> 0, text |-> <<>>, forcedFormat |-> "undefined", readable |-> TRUE]

\* No ObjectNode or ArrayNode looked at.
NoNode == [kind |-> "none", path |-> <<>>]

\* tryParseJSONL not called: no list returned, no error thrown.
NoThrown == [thrownBy |-> "", text |-> <<>>]
NoList == [outcome |-> "none", list |-> <<>>, error |-> NoThrown]

Constructed ==
  /\ parsedData = Null /\ appSourceMap = NoMap /\ appError = NoAppError
  /\ format = "JSON" /\ activePath = NoPath
  /\ loose = NotCalled
  /\ jsonl = NoList /\ highlightLine = NoLine /\ reads = {} /\ fileName = NoFile

\* A pending setTimeout callback: the text and the format its performParse
\* is called with, and whether it ends with setIsLoading(false).
Timer(text, loading) == [text |-> text, forcedFormat |-> "JSON", loading |-> loading]

(* The parser alone: one call on any text of Inputs, step by step.          *)

Init ==
  /\ Called(Inputs) /\ Constructed /\ isLoading = FALSE /\ timers = {}
  /\ issued = NoRequest /\ node = NoNode /\ expanded = FALSE

ParseValue == pc = "value" /\ Install(parseValue(Conf)) /\ UNCHANGED appVars
ParseObject == pc = "object" /\ Install(parseObject(Conf)) /\ UNCHANGED appVars
ParseArray == pc = "array" /\ Install(parseArray(Conf)) /\ UNCHANGED appVars
CheckEOF == pc = "eof" /\ Install(checkEOF(Conf)) /\ UNCHANGED appVars

Next == ParseValue \/ ParseObject \/ ParseArray \/ CheckEOF

Spec == Init /\ [][Next]_vars

(* The App from the moment the reader.onload of a .json upload has put the  *)
(* file's text into the editor and set the timer: the timer's callback      *)
(* parses the text, the editor then reports cursor moves.                   *)

InitApp ==
  /\ Called(AppTexts) /\ Constructed /\ isLoading = TRUE
  /\ timers = {Timer(input, TRUE)}
  /\ issued = NoRequest /\ node = NoNode /\ expanded = FALSE

\* performParse(text, 'JSON') where r is what its parseJsonWithSourceMap call
\* returns: the new values of parsedData, sourceMap, error and format.
performParse(text, r) ==
  IF Trim(text) = <<>>
  THEN [parsedData |-> Null, sourceMap |-> NoMap, error |-> NoAppError, format |-> format]
  ELSE IF r.error # NoError
       THEN [parsedData |-> Null, sourceMap |-> NoMap,
             error |-> [text |-> "Invalid JSON: ", cause |-> r.error], format |-> format]
       ELSE [parsedData |-> r.data, sourceMap |-> SomeMap(r.sourceMap),
             error |-> NoAppError, format |-> "JSON"]

\* A timer callback: that of handleFileUpload, performParse(content, 'JSON');
\* setIsLoading(false), or that of handleFormat, performParse(pretty,
\* 'JSON'). The parser is called unless the text is blank.
TimerFires ==
  \E t \in timers :
    /\ result' = IF Trim(t.text) = <<>> THEN result ELSE parseJsonWithSourceMap(t.text)
    /\ LET s == performParse(t.text, result') IN
       /\ parsedData' = s.parsedData
       /\ appSourceMap' = s.sourceMap
       /\ appError' = s.error
       /\ format' = s.format
    /\ isLoading' = IF t.loading THEN FALSE ELSE isLoading
    /\ timers' = timers \ {t}
    /\ UNCHANGED <<input, i, line, column, sourceMap, stack, pc, path, data,
                   activePath, loose, uiVars>>

\* handleFormat (Prettify): the editor gets JSON.stringify(parsedData, null,
\* 2) and a timer is set to parse that text again.
HandleFormat ==
  /\ parsedData # Null
  /\ LET pretty == stringify(parsedData) IN
     /\ input' = pretty
     /\ timers' = timers \cup {Timer(pretty, FALSE)}
  /\ format' = "JSON"
  /\ appError' = NoAppError
  /\ UNCHANGED <<i, line, column, sourceMap, stack, pc, path, data, result,
                 parsedData, appSourceMap, isLoading, activePath, loose, uiVars>>

\* The offsets the editor reports: the positions in its text, and the one
\* past them.
CursorOffsets == 0..(Len(input) + 1)

handleCursorMove(cursorIndex) ==
  /\ IF appSourceMap.isNull
     THEN UNCHANGED activePath
     ELSE LET bestPath == resolvePath(appSourceMap.map, cursorIndex) IN
          IF bestPath # NoPath /\ bestPath # activePath
          THEN activePath' = bestPath
          ELSE UNCHANGED activePath
  /\ UNCHANGED <<parserVars, parsedData, appSourceMap, appError, format, isLoading,
                 timers, loose, uiVars>>

HandleCursorMove == \E cursorIndex \in CursorOffsets : handleCursorMove(cursorIndex)

NextApp == TimerFires \/ HandleFormat \/ HandleCursorMove

SpecApp == InitApp /\ [][NextApp]_vars

(* parseLooseJson called on any text of Inputs.                             *)

InitLoose ==
  /\ Called(Inputs) /\ Constructed /\ isLoading = FALSE /\ timers = {}
  /\ issued = NoRequest /\ node = NoNode /\ expanded = FALSE

\* A parseLooseJson that takes a result without data for a failure.
parseLooseJson_ThrowsOnNull(r) ==
  IF r.error # NoError \/ r.data = Null
  THEN [outcome |-> "thrown", data |-> Null, message |-> r.error]
  ELSE [outcome |-> "returned", data |-> r.data, message |-> NoError]

\* parseLooseJson(input) where r is what its parseJsonWithSourceMap call
\* returns: throw new Error(error) if error is set, return data else.
parseLooseJson(r) ==
  IF r.error # NoError
  THEN [outcome |-> "thrown", data |-> Null, message |-> r.error]
  ELSE [outcome |-> "returned", data |-> r.data, message |-> NoError]

ParseLooseJson ==
  /\ loose = NotCalled
  /\ result' = parseJsonWithSourceMap(input)
  /\ loose' = parseLooseJson(result')
  /\ UNCHANGED <<input, i, line, column, sourceMap, stack, pc, path, data,
                 parsedData, appSourceMap, appError, format, isLoading, activePath,
                 timers, uiVars>>

NextLoose == ParseLooseJson

SpecLoose == InitLoose /\ [][NextLoose]_vars

-----------------------------------------------------------------------------
(* tryParseJSONL (src/utils/parsers.ts) called on a text of lines.          *)

\* text.split(/\r?\n/): the pieces between the line feeds, a carriage return
\* before a line feed belonging to the separator.
RECURSIVE splitLines(_, _)
splitLines(text, current) ==
  IF text = <<>> THEN <<current>>
  ELSE IF Head(text) = "\n" THEN <<current>> \o splitLines(Tail(text), <<>>)
  ELSE IF Head(text) = "\r" /\ Len(text) > 1 /\ text[2] = "\n"
  THEN <<current>> \o splitLines(Tail(Tail(text)), <<>>)
  ELSE splitLines(Tail(text), Append(current, Head(text)))

\* The SyntaxError JSON.parse throws for a text, the Error parseLooseJson
\* throws for it.
SyntaxError(text) == [thrownBy |-> "JSON.parse", text |-> text]
LooseError(text) == [thrownBy |-> "parseLooseJson", text |-> text]

\* A loop body that throws the error of the loose parser.
jsonlLine_ThrowsLooseError(trimmed) ==
  Only({IF strict.ok THEN [pushed |-> TRUE, v |-> strict.v, thrown |-> NoThrown]
        ELSE Only({IF l.outcome = "returned"
                   THEN [pushed |-> TRUE, v |-> l.data, thrown |-> NoThrown]
                   ELSE [pushed |-> FALSE, v |-> Null, thrown |-> LooseError(trimmed)] :
                   l \in {parseLooseJson(parseJsonWithSourceMap(trimmed))}}) :
        strict \in {JSONparse(trimmed)}})

\* The body of the loop for a line that is not blank (lines 12-24): the
\* value pushed, or the error thrown: e, that of JSON.parse.
jsonlLine(trimmed) ==
  Only({IF strict.ok THEN [pushed |-> TRUE, v |-> strict.v, thrown |-> NoThrown]
        ELSE Only({IF l.outcome = "returned"
                   THEN [pushed |-> TRUE, v |-> l.data, thrown |-> NoThrown]
                   ELSE IF Len(trimmed) > 0
                   THEN [pushed |-> FALSE, v |-> Null, thrown |-> SyntaxError(trimmed)]
                   ELSE [pushed |-> FALSE, v |-> Null, thrown |-> NoThrown] :
                   l \in {parseLooseJson(parseJsonWithSourceMap(trimmed))}}) :
        strict \in {JSONparse(trimmed)}})

\* for (const line of lines): blank lines are skipped, a throw ends the call.
RECURSIVE jsonlLoop(_, _)
jsonlLoop(lines, list) ==
  IF lines = <<>> THEN [outcome |-> "returned", list |-> list, error |-> NoThrown]
  ELSE LET body(trimmed) ==
             IF trimmed = <<>> THEN jsonlLoop(Tail(lines), list)
             ELSE Only({IF r.thrown # NoThrown
                        THEN [outcome |-> "thrown", list |-> <<>>, error |-> r.thrown]
                        ELSE jsonlLoop(Tail(lines),
                                       IF r.pushed THEN Append(list, r.v) ELSE list) :
                        r \in {jsonlLine(trimmed)}})
       IN Only({body(trimmed) : trimmed \in {Trim(Head(lines))}})

\* split gives one piece at least, so "Empty input" is never thrown.
tryParseJSONL(text) ==
  Only({jsonlLoop(lines, <<>>) : lines \in {splitLines(Trim(text), <<>>)}})

\* The lines the texts are made of: accepted by JSON.parse, by the loose
\* parser only, by none, and blank ones.
MaxLines == 3

JsonlLines ==
  {<<"1">>, <<"\"", "b", "\"">>, <<" ", "{", "\"", "a", "\"", ":", "1", "}">>,
   <<"N", "a", "N">>, <<"[", "1", ",", "]", " ">>, <<"x">>, <<"{">>, <<>>, <<" ">>,
   Quote(ProtoKey) \o <<":", "1">>, <<"{">> \o Quote(ProtoKey) \o <<":", "1", "}">>}

RECURSIVE JoinLines(_, _)
JoinLines(lines, sep) ==
  IF Len(lines) = 1 THEN Head(lines)
  ELSE Head(lines) \o sep \o JoinLines(Tail(lines), sep)

RECURSIVE LineLists(_)
LineLists(n) ==
  IF n = 1 THEN {<<l>> : l \in JsonlLines}
  ELSE {<<l>> \o rest : l \in JsonlLines, rest \in LineLists(n - 1)}

JsonlTexts ==
  UNION {{JoinLines(ls, sep) : ls \in LineLists(n), sep \in {<<"\n">>, <<"\r", "\n">>}}
         : n \in 1..MaxLines}

InitJsonl ==
  /\ Called(JsonlTexts) /\ Constructed /\ isLoading = FALSE /\ timers = {}
  /\ issued = NoRequest /\ node = NoNode /\ expanded = FALSE

TryParseJSONL ==
  /\ jsonl = NoList
  /\ jsonl' = tryParseJSONL(input)
  /\ UNCHANGED <<parserVars, parsedData, appSourceMap, appError, format, isLoading,
                 activePath, timers, loose, highlightLine, reads, issued, fileName,
                 node, expanded>>

NextJsonl == TryParseJSONL

SpecJsonl == InitJsonl /\ [][NextJsonl]_vars

-----------------------------------------------------------------------------
(* tryParseCSV (src/utils/parsers.ts).                                      *)

\* The loop of parseCSVLine: a quote toggles inQuote (two quotes inside a
\* quoted field give one quote), a comma outside quotes ends the field.
RECURSIVE csvFields(_, _, _, _)
csvFields(csvLine, k, current, inQuote) ==
  IF k > Len(csvLine) THEN <<current>>
  ELSE LET char == csvLine[k] IN
       IF char = "\""
       THEN IF inQuote /\ CharAt(csvLine, k) = "\""
            THEN csvFields(csvLine, k + 2, Append(current, "\""), inQuote)
            ELSE csvFields(csvLine, k + 1, current, ~inQuote)
       ELSE IF char = "," /\ ~inQuote
       THEN <<current>> \o csvFields(csvLine, k + 1, <<>>, inQuote)
       ELSE csvFields(csvLine, k + 1, Append(current, char), inQuote)

\* replace(/""/g, '"')
RECURSIVE unescapeQuotes(_)
unescapeQuotes(s) ==
  IF Len(s) < 2 THEN s
  ELSE IF s[1] = "\"" /\ s[2] = "\"" THEN <<"\"">> \o unescapeQuotes(Tail(Tail(s)))
  ELSE <<s[1]>> \o unescapeQuotes(Tail(s))

parseCSVLine(csvLine) ==
  LET fields == csvFields(csvLine, 1, <<>>, FALSE) IN
  [k \in 1..Len(fields) |->
     LET trimmed == Trim(fields[k]) IN
     IF Len(trimmed) >= 2 /\ trimmed[1] = "\"" /\ trimmed[Len(trimmed)] = "\""
     THEN unescapeQuotes(SubSeq(trimmed, 2, Len(trimmed) - 1))
     ELSE trimmed]

\* The type inference of tryParseCSV on a field; Number(val) as the decimal
\* literals convert (the fields of the texts hold no other number text).
csvValue(val) ==
  IF val = <<"t", "r", "u", "e">> THEN Bool(TRUE)
  ELSE IF val = <<"f", "a", "l", "s", "e">> THEN Bool(FALSE)
  ELSE IF val = <<"n", "u", "l", "l">> THEN Null
  ELSE IF val # <<>> /\ Number(val) # NaN THEN Number(val)
  ELSE Str(val)

\* headers.forEach((h, i) => obj[h] = ...): a missing field gives null.
RECURSIVE csvRow(_, _, _, _)
csvRow(headers, values, k, members) ==
  IF k > Len(headers) THEN Obj(members)
  ELSE csvRow(headers, values, k + 1,
              ObjSet(members, headers[k],
                     IF k <= Len(values) THEN csvValue(values[k]) ELSE Null))

\* The first line gives the headers, every other line that is not blank an
\* object; nothing is thrown (split gives one piece at least).
tryParseCSV(text) ==
  LET lines == splitLines(Trim(text), <<>>)
      headers == parseCSVLine(lines[1])
      rows == SelectSeq(Tail(lines), LAMBDA l : Trim(l) # <<>>)
  IN Arr([k \in 1..Len(rows) |-> csvRow(headers, parseCSVLine(rows[k]), 1, <<>>)])

-----------------------------------------------------------------------------
(* The App with all its parse requests (src/unnamed/part_001): the initial  *)
(* load, Visualize, Prettify and file uploads, the timers and file reads    *)
(* they wait for, and the selection of nodes and cursor moves.              *)

\* The formats a parse is forced to; a call without one passes undefined.
Formats == {"undefined", "JSON", "JSONL", "CSV"}

\* The state performParse sets.
Displayed ==
  [parsedData |-> parsedData, sourceMap |-> appSourceMap, error |-> appError,
   format |-> format]

AppError(text) == [text |-> text, cause |-> NoError]

\* A state performParse has set, or the mark of the attempts still to make.
Done(state) == [done |-> TRUE, state |-> state]
Undone == [done |-> FALSE, state |-> Null]

\* The JSON attempt of performParse (lines 211-243): parseJsonWithSourceMap
\* on the text, JSON.parse on the trimmed text when no format is forced,
\* and the error of the source map parser when JSON is forced.
performParseJSON(text, forcedFormat, shown) ==
  IF forcedFormat \notin {"undefined", "JSON"} THEN Undone
  ELSE Only(
    {IF json.error = NoError
     THEN Done([parsedData |-> json.data, sourceMap |-> SomeMap(json.sourceMap),
                error |-> NoAppError, format |-> "JSON"])
     ELSE IF forcedFormat = "JSON"
     THEN Done([shown EXCEPT !.parsedData = Null, !.sourceMap = NoMap,
                             !.error = [text |-> "Invalid JSON: ", cause |-> json.error]])
     ELSE Only({IF strict.ok
                THEN Done([parsedData |-> strict.v, sourceMap |-> NoMap,
                           error |-> NoAppError, format |-> "JSON"])
                ELSE Undone : strict \in {JSONparse(Trim(text))}}) :
     json \in {parseJsonWithSourceMap(text)}})

\* The JSONL attempt (lines 246-258): a failed forced parse leaves format
\* and source map.
performParseJSONL(text, forcedFormat, shown) ==
  IF forcedFormat \notin {"undefined", "JSONL"} THEN Undone
  ELSE Only(
    {IF lines.outcome = "returned"
     THEN Done([parsedData |-> Arr(lines.list), sourceMap |-> NoMap,
                error |-> NoAppError, format |-> "JSONL"])
     ELSE IF forcedFormat = "JSONL"
     THEN Done([shown EXCEPT !.parsedData = Null,
                             !.error = AppError("Invalid JSONL format.")])
     ELSE Undone : lines \in {tryParseJSONL(Trim(text))}})

\* performParse(text, forcedFormat) where shown is the state before the
\* call: the state after it. A blank text leaves the format. tryParseCSV
\* throws nothing, so the branches behind it (lines 269-280) are never taken.
performParseForced(text, forcedFormat, shown) ==
  IF Trim(text) = <<>>
  THEN [shown EXCEPT !.parsedData = Null, !.sourceMap = NoMap, !.error = NoAppError]
  ELSE Only(
    {IF asJSON.done THEN asJSON.state
     ELSE Only(
       {IF asJSONL.done THEN asJSONL.state
        ELSE [parsedData |-> tryParseCSV(Trim(text)), sourceMap |-> NoMap,
              error |-> NoAppError, format |-> "CSV"] :
        asJSONL \in {performParseJSONL(text, forcedFormat, shown)}}) :
     asJSON \in {performParseJSON(text, forcedFormat, shown)}})

\* A document of two lines stands for the sample document the App starts
\* with.
DEFAULT_DATA == <<"[", "1", ",", "\n", "[", "2", "]", "]">>

\* The texts typed into the editor and held by the files: the sample, a text
\* of two JSON lines, a text with a header line, and the empty text.
TypedTexts ==
  {DEFAULT_DATA, <<"1", "\n", "[", "2", "]">>, <<"a", "\n", "1">>, <<>>}

\* The files uploaded: name, content, and whether the read succeeds.
File(name, content, readable) == [name |-> name, content |-> content, readable |-> readable]

Files ==
  {File(<<"f", ".", "j", "s", "o", "n">>, <<"1", "\n", "[", "2", "]">>, TRUE),
   File(<<"f", ".", "j", "s", "o", "n", "l">>, <<"a", "\n", "1">>, TRUE),
   File(<<"f", ".", "c", "s", "v">>, <<"a", "\n", "1">>, TRUE),
   File(<<"f", ".", "t", "x", "t">>, DEFAULT_DATA, TRUE),
   File(<<"f", ".", "t", "x", "t">>, <<>>, FALSE)}

endsWith(s, suffix) ==
  Len(s) >= Len(suffix) /\ SubSeq(s, Len(s) - Len(suffix) + 1, Len(s)) = suffix

\* let detectedFormat of handleFileUpload (the names are in lower case).
detectedFormat(name) ==
  IF endsWith(name, <<".", "c", "s", "v">>) THEN "CSV"
  ELSE IF endsWith(name, <<".", "j", "s", "o", "n", "l">>) THEN "JSONL"
  ELSE IF endsWith(name, <<".", "j", "s", "o", "n">>) THEN "JSON"
  ELSE "undefined"

\* The number of parse requests of a session.
MaxRequests == 3

\* A parse request: its number in the order of issue, the text and the
\* format, and whether the read of its file succeeds.
Request(n, text, forcedFormat, readable) ==
  [n |-> n, text |-> text, forcedFormat |-> forcedFormat, readable |-> readable]

\* A pending setTimeout callback of the session: performParse(text,
\* forcedFormat) for request n, with setIsLoading(false) behind it or not.
Deferred(n, text, forcedFormat, loading) ==
  [n |-> n, text |-> text, forcedFormat |-> forcedFormat, loading |-> loading]

\* The state after the first render: the editor holds the sample and the
\* effect has called processInput(DEFAULT_DATA, 'JSON'). All timers have a
\* delay of 50 ms, so they fire in the order of their creation: timers is a
\* queue here.
InitSession ==
  /\ Called({DEFAULT_DATA}) /\ Constructed
  /\ isLoading = TRUE
  /\ timers = <<Deferred(1, DEFAULT_DATA, "JSON", TRUE)>>
  /\ issued = Request(1, DEFAULT_DATA, "JSON", TRUE)
  /\ node = NoNode /\ expanded = FALSE

\* onChange of the editor and the Clear button: setInput(val), setFileName(null).
EditInput ==
  \E text \in TypedTexts :
    /\ text # input
    /\ input' = text
    /\ fileName' = NoFile
    /\ UNCHANGED <<i, line, column, sourceMap, stack, pc, path, data, result,
                   parsedData, appSourceMap, appError, format, isLoading, activePath,
                   timers, loose, jsonl, highlightLine, reads, issued, node,
                   expanded>>

\* handleManualParse (Visualize): processInput(input) unless the editor
\* holds the placeholder of a large file.
HandleManualParse ==
  /\ issued.n < MaxRequests
  /\ ~(fileName # NoFile /\ Len(input) >= 3 /\ SubSeq(input, 1, 3) = <<"<", "<", "<">>)
  /\ isLoading' = TRUE
  /\ timers' = Append(timers, Deferred(issued.n + 1, input, "undefined", TRUE))
  /\ issued' = Request(issued.n + 1, input, "undefined", TRUE)
  /\ UNCHANGED <<parserVars, parsedData, appSourceMap, appError, format, activePath,
                 loose, jsonl, highlightLine, reads, fileName, node, expanded>>

\* handleFormat (Prettify) with its request counted.
Prettify ==
  /\ issued.n < MaxRequests
  /\ parsedData # Null
  /\ LET pretty == stringify(parsedData) IN
     /\ input' = pretty
     /\ timers' = Append(timers, Deferred(issued.n + 1, pretty, "JSON", FALSE))
     /\ issued' = Request(issued.n + 1, pretty, "JSON", TRUE)
  /\ fileName' = NoFile
  /\ format' = "JSON"
  /\ appError' = NoAppError
  /\ UNCHANGED <<i, line, column, sourceMap, stack, pc, path, data, result,
                 parsedData, appSourceMap, isLoading, activePath, loose, jsonl,
                 highlightLine, reads, node, expanded>>

\* handleFileUpload up to reader.readAsText(file).
HandleFileUpload ==
  \E file \in Files :
    /\ issued.n < MaxRequests
    /\ isLoading' = TRUE
    /\ fileName' = file.name
    /\ reads' = reads \cup {[n |-> issued.n + 1, file |-> file]}
    /\ issued' = Request(issued.n + 1, file.content, detectedFormat(file.name), file.readable)
    /\ UNCHANGED <<parserVars, parsedData, appSourceMap, appError, format, activePath,
                   timers, loose, jsonl, highlightLine, node, expanded>>

\* reader.onload: the editor gets the content (the files are below 1 MB) and
\* the timer of the parse is set.
ReaderOnload ==
  \E r \in reads :
    /\ r.file.readable
    /\ input' = r.file.content
    /\ timers' = Append(timers, Deferred(r.n, r.file.content, detectedFormat(r.file.name), TRUE))
    /\ reads' = reads \ {r}
    /\ UNCHANGED <<i, line, column, sourceMap, stack, pc, path, data, result,
                   parsedData, appSourceMap, appError, format, isLoading, activePath,
                   loose, jsonl, highlightLine, issued, fileName, node, expanded>>

\* The read of a file fails: the reader has no onerror handler, so the
\* error event changes nothing.
ReaderError ==
  \E r \in reads :
    /\ ~r.file.readable
    /\ reads' = reads \ {r}
    /\ UNCHANGED <<parserVars, parsedData, appSourceMap, appError, format, isLoading,
                   activePath, timers, loose, jsonl, highlightLine, issued, fileName,
                   node, expanded>>

\* The callback of the oldest timer: performParse(text, forcedFormat), and
\* setIsLoading(false) for processInput and handleFileUpload.
TimerCallback ==
  /\ timers # <<>>
  /\ \E t \in {Head(timers)} :
       \E s \in {performParseForced(t.text, t.forcedFormat, Displayed)} :
         /\ parsedData' = s.parsedData
         /\ appSourceMap' = s.sourceMap
         /\ appError' = s.error
         /\ format' = s.format
         /\ isLoading' = IF t.loading THEN FALSE ELSE isLoading
  /\ timers' = Tail(timers)
  /\ UNCHANGED <<parserVars, activePath, loose, jsonl, highlightLine, reads, issued,
                 fileName, node, expanded>>

\* The nodes whose header calls onPathSelect(path): the arrays and the
\* objects other than the root.
RECURSIVE SelectablePaths(_, _)
SelectablePaths(value, p) ==
  (IF value.t = "arr" \/ (value.t = "obj" /\ p # Root) THEN {p} ELSE {})
  \cup
  (IF value.t = "obj"
   THEN UNION {SelectablePaths(value.v[k].v, p \o <<".">> \o value.v[k].k) : k \in 1..Len(value.v)}
   ELSE IF value.t = "arr"
   THEN UNION {SelectablePaths(value.v[k], p \o <<".">> \o NatToString(k - 1)) : k \in 1..Len(value.v)}
   ELSE {})

\* A handlePathSelect that takes the line from the root's entry.
handlePathSelect_RootLine(selected) ==
  /\ activePath' = selected
  /\ IF ~appSourceMap.isNull /\ MapHas(appSourceMap.map, selected)
     THEN highlightLine' = MapGet(appSourceMap.map, Root).line
     ELSE UNCHANGED highlightLine
  /\ UNCHANGED <<parserVars, parsedData, appSourceMap, appError, format, isLoading,
                 timers, loose, jsonl, reads, issued, fileName, node, expanded>>

handlePathSelect(selected) ==
  /\ activePath' = selected
  /\ IF ~appSourceMap.isNull /\ MapHas(appSourceMap.map, selected)
     THEN highlightLine' = MapGet(appSourceMap.map, selected).line
     ELSE UNCHANGED highlightLine
  /\ UNCHANGED <<parserVars, parsedData, appSourceMap, appError, format, isLoading,
                 timers, loose, jsonl, reads, issued, fileName, node, expanded>>

HandlePathSelect ==
  /\ parsedData # Null
  /\ \E selected \in SelectablePaths(parsedData, Root) : handlePathSelect(selected)

NextSession ==
  \/ EditInput \/ HandleManualParse \/ Prettify \/ HandleFileUpload
  \/ ReaderOnload \/ ReaderError \/ TimerCallback
  \/ HandlePathSelect \/ HandleCursorMove

SpecSession == InitSession /\ [][NextSession]_vars

\* A step that takes the oldest timer off the queue. Only TimerCallback
\* makes such a step, and it can make one whenever a timer is pending.
TimerDue == timers # <<>> /\ timers' = Tail(timers)

\* The session with the event loop running every callback that is due: a
\* timer that has been set fires, a file read ends with its load or its
\* error event.
SpecSessionFair ==
  /\ SpecSession
  /\ WF_timers(TimerDue) /\ WF_vars(ReaderOnload) /\ WF_vars(ReaderError)

-----------------------------------------------------------------------------
(* One ObjectNode (src/unnamed/part_004) or ArrayNode                       *)
(* (src/components/nodes/ArrayNode.tsx) of the viewer: its path, its        *)
(* expanded state, and the active path it gets from the ViewerContext.      *)

startsWith(s, prefix) == Len(s) >= Len(prefix) /\ SubSeq(s, 1, Len(prefix)) = prefix

\* A test that asks for the separator behind the node's path.
autoExpand_WithSeparator(active, p) ==
  active # NoPath /\ startsWith(active, p \o <<".">>) /\ active # p

\* activePath && activePath.startsWith(path) && activePath !== path
autoExpand(active, p) ==
  active # NoPath /\ startsWith(active, p) /\ active # p

\* The paths of the nodes and the active paths: the root, elements 1 and 10
\* of an array and nodes below them, members a and ab of an object.
NodePaths ==
  {Root} \cup {Root \o <<".">> \o rest :
     rest \in {<<"1">>, <<"1", "0">>, <<"1", ".", "x">>, <<"1", "0", ".", "x">>,
               <<"a">>, <<"a", "b">>, <<"a", ".", "0">>}}

\* useState(!!isRoot || depth < 1): the root is rendered open, every other
\* node closed.
InitNode ==
  /\ Called({<<>>}) /\ Constructed /\ isLoading = FALSE /\ timers = {}
  /\ issued = NoRequest
  /\ \E kind \in {"obj", "arr"}, p \in NodePaths : node = [kind |-> kind, path |-> p]
  /\ expanded = (node.path = Root)

\* The context gives the node another active path (a node was selected or
\* the cursor moved) and the effect of lines 23-31 / 59-67 runs.
ActivePathChanges ==
  \E p \in NodePaths :
    /\ p # activePath
    /\ activePath' = p
    /\ expanded' = (expanded \/ autoExpand(p, node.path))
    /\ UNCHANGED <<parserVars, parsedData, appSourceMap, appError, format, isLoading,
                   timers, loose, jsonl, highlightLine, reads, issued, fileName, node>>

\* handleHeaderClick: onPathSelect(path) and setExpanded(!expanded); an
\* ObjectNode does neither when it is the root.
HandleHeaderClick ==
  /\ ~(node.kind = "obj" /\ node.path = Root)
  /\ activePath' = node.path
  /\ expanded' = ~expanded
  /\ UNCHANGED <<parserVars, parsedData, appSourceMap, appError, format, isLoading,
                 timers, loose, jsonl, highlightLine, reads, issued, fileName, node>>

\* Expand all and Collapse all: the effects on expandAllToken and
\* collapseAllToken set expanded.
HandleExpandAll ==
  /\ expanded' = TRUE
  /\ UNCHANGED <<parserVars, parsedData, appSourceMap, appError, format, isLoading,
                 activePath, timers, loose, jsonl, highlightLine, reads, issued,
                 fileName, node>>

HandleCollapseAll ==
  /\ expanded' = FALSE
  /\ UNCHANGED <<parserVars, parsedData, appSourceMap, appError, format, isLoading,
                 activePath, timers, loose, jsonl, highlightLine, reads, issued,
                 fileName, node>>

NextNode == ActivePathChanges \/ HandleHeaderClick \/ HandleExpandAll \/ HandleCollapseAll

SpecNode == InitNode /\ [][NextNode]_vars

-----
(* Properties                                                              *)

WhiteSpace == {" ", "\t", "\n", "\r"}

\* parseJsonWithSourceMap has returned, with a success result.
Returned == pc = "done"
Success == Returned /\ result.error = NoError
Failure == Returned /\ result.error # NoError

\* p is q followed by "." and a key or an index.
IsChildPath(q, p) == Len(p) > Len(q) /\ SubSeq(p, 1, Len(q) + 1) = q \o <<".">>

\* C1: the call returns either a success result (no error, the parsed value,
\* the map this parse built) or a failure result (a message, null data, an
\* empty map); a failure result carries no entry of the map built so far.
Thm_C1_TaggedResult ==
  Returned =>
    \/ /\ result.error = NoError
       /\ result.data = data
       /\ result.sourceMap = sourceMap
    \/ /\ result.error # NoError
       /\ result.error.reason # ""
       /\ result.data = Null
       /\ result.sourceMap = EmptyMap

\* A failure after entries had been recorded.
Witness_C1_FailureAfterEntries ==
  Failure /\ sourceMap # EmptyMap /\ result.sourceMap = EmptyMap

\* C2: on success, the span of every entry lies within the span of every
\* entry whose path is its dotted parent.
Cex_C2_SpanContainment ==
  Success =>
    \A a, b \in 1..Len(result.sourceMap) :
      LET q == result.sourceMap[a]
          p == result.sourceMap[b]
      IN IsChildPath(q.path, p.path) =>
           q.loc.start <= p.loc.start /\ p.loc.end <= q.loc.end

\* The entries of map whose inclusive span contains offset o.
Containing(map, o) ==
  {k \in 1..Len(map) : map[k].loc.start <= o /\ o <= map[k].loc.end}

Width(e) == e.loc.end - e.loc.start

\* C3: a cursor move selects an entry whose inclusive span contains the
\* offset and is no wider than any other entry containing it; without such
\* an entry the active path stays.
Thm_C3_ResolverMinimality ==
  [][\A o \in CursorOffsets :
       (handleCursorMove(o) /\ ~appSourceMap.isNull) =>
         LET m == appSourceMap.map
             C == Containing(m, o)
         IN IF C = {} THEN activePath' = activePath
            ELSE \E k \in C : /\ m[k].path = activePath'
                              /\ \A j \in C : Width(m[k]) <= Width(m[j])]_vars

\* The cursor resolved to an element that lies inside an array inside the
\* root object.
Witness_C3_DeepestSelected ==
  /\ ~appSourceMap.isNull
  /\ activePath = Root \o <<".", "a", ".", "0">>
  /\ MapHas(appSourceMap.map, Root \o <<".", "a">>)
  /\ LET inner == MapGet(appSourceMap.map, activePath)
         outer == MapGet(appSourceMap.map, Root \o <<".", "a">>)
     IN outer.start < inner.start /\ inner.end < outer.end

\* C4: in a parse that succeeds every recording of a location adds an entry
\* to the map, so that no two values of the text are recorded under one path
\* and the map has as many entries as values were parsed.
Cex_C4_OneEntryPerValue ==
  [][(sourceMap' # sourceMap /\ Run(Conf).result.error = NoError)
       => Len(sourceMap') = Len(sourceMap) + 1]_vars

LineAt(text, k) == 1 + Cardinality({j \in 1..k : text[j] = "\n"})

ColumnAt(text, k) ==
  LET feeds == {j \in 1..k : text[j] = "\n"}
      last == IF feeds = {} THEN 0 ELSE CHOOSE j \in feeds : \A h \in feeds : h <= j
  IN k - last + 1

\* A text without backslash and carriage return.
Plain(text) == \A j \in 1..Len(text) : text[j] \notin {"\\", "\r"}

\* C6: on success every entry spans exactly one literal: it starts on the
\* value's first character, which is no white space, and ends behind its
\* last one; a string starts and ends on its quotes, an object on its
\* braces, an array on its brackets; line and column are those of start.
Thm_C6_ExactSpan ==
  Success =>
    \A k \in 1..Len(result.sourceMap) :
      LET loc == result.sourceMap[k].loc
          first == CharAt(input, loc.start)
          last == CharAt(input, loc.end - 1)
      IN /\ 0 <= loc.start /\ loc.start < loc.end /\ loc.end <= Len(input)
         /\ first \notin WhiteSpace
         /\ first \in {"{", "[", "\"", "t", "f", "n", "N", "I", "-"} \cup Digits
         /\ first = "\"" => last = "\"" /\ loc.end - loc.start >= 2
         /\ first = "{" => last = "}"
         /\ first = "[" => last = "]"
         /\ first \in {"t", "f"} => last = "e"
         /\ first = "n" => last = "l"
         /\ first = "N" => last = "N"
         /\ first = "I" => last = "y"
         /\ first \in Digits \cup {"-"} => last \in Digits \cup {".", "y"}
         /\ loc.line >= 1 /\ loc.column >= 1
         /\ Plain(input) =>
              /\ loc.line = LineAt(input, loc.start)
              /\ loc.column = ColumnAt(input, loc.start)
              /\ first = "\"" =>
                   \A j \in (loc.start + 1)..(loc.end - 2) : CharAt(input, j) # "\""

\* A successful parse of a text of several lines with a string entry that
\* begins behind the first line, inside an object.
Witness_C6_StringOnSecondLine ==
  /\ Success
  /\ \E k \in 1..Len(result.sourceMap) :
       LET loc == result.sourceMap[k].loc IN
       /\ loc.line = 2 /\ loc.column > 1
       /\ CharAt(input, loc.start) = "\""
       /\ CharAt(input, loc.start - 1) \in WhiteSpace
  /\ CharAt(input, MapGet(result.sourceMap, Root).start) = "{"

\* C7: on success the root entry starts at the first character that is no
\* white space and ends behind the last character of the top-level value,
\* before the trailing white space.
Thm_C7_RootCoverage ==
  Success =>
    LET root == MapGet(result.sourceMap, Root) IN
    /\ root.start = Len(input) - Len(TrimStart(input))
    /\ root.end = Len(TrimEnd(input))

\* A successful parse of a text with white space on both sides.
Witness_C7_PaddedRoot ==
  /\ Success
  /\ MapGet(result.sourceMap, Root).start > 0
  /\ MapGet(result.sourceMap, Root).end < Len(input)

\* The offset of the first character at or behind offset k that is no white
\* space, or the length of the text.
RECURSIVE FirstNonWhite(_, _)
FirstNonWhite(text, k) ==
  IF k < Len(text) /\ text[k + 1] \in WhiteSpace THEN FirstNonWhite(text, k + 1) ELSE k

EOFMessage == "Unexpected character after JSON data (Expected EOF)"

\* C8: once the root value has been parsed, the call succeeds if and only if
\* every remaining character is white space; any other remaining character
\* gives a failure with the "Expected EOF" message that names that character
\* and reports its position.
Thm_C8_EOFStrictness ==
  (Returned /\ MapHas(sourceMap, Root)) =>
    LET k == FirstNonWhite(input, MapGet(sourceMap, Root).end) IN
    /\ Success <=> k = Len(input)
    /\ Failure =>
         /\ result.error.reason = EOFMessage
         /\ result.error.arg = <<CharAt(input, k)>>
         /\ i = k
         /\ result.error.line = line /\ result.error.column = column
         /\ Plain(input) =>
              /\ result.error.line = LineAt(input, k)
              /\ result.error.column = ColumnAt(input, k)
         /\ result.data = Null /\ result.sourceMap = EmptyMap

\* A failure on a character that follows the root value on another line.
Witness_C8_GarbageOnNextLine ==
  /\ Failure
  /\ MapHas(sourceMap, Root)
  /\ result.error.reason = EOFMessage
  /\ result.error.line = 2
  /\ i > MapGet(sourceMap, Root).end

\* The offsets of the commas of a text that stand outside its strings and
\* are followed, after optional white space, directly by a closing bracket.
QuotesBefore(text, a) == Cardinality({j \in 1..a : text[j] = "\""})

TrailingCommas(text, closers) ==
  {a \in 0..(Len(text) - 1) :
     /\ text[a + 1] = ","
     /\ QuotesBefore(text, a) % 2 = 0
     /\ CharAt(text, FirstNonWhite(text, a + 1)) \in closers}

\* The character before offset a that is no white space.
RECURSIVE LastNonWhiteBefore(_, _)
LastNonWhiteBefore(text, a) ==
  IF a = 0 THEN Undefined
  ELSE IF text[a] \in WhiteSpace THEN LastNonWhiteBefore(text, a - 1) ELSE text[a]

RemoveAt(text, a) == SubSeq(text, 1, a) \o SubSeq(text, a + 2, Len(text))

\* The cursor of parseObject / parseArray stands on a comma that follows a
\* member / an element and is followed directly by the closing bracket.
AtTrailingComma ==
  /\ pc \in {"object", "array"}
  /\ ~Top(Conf).initial
  /\ CharAt(input, i) = ","
  /\ CharAt(input, FirstNonWhite(input, i + 1)) = IF pc = "object" THEN "}" ELSE "]"

\* C9 as stated: an object or an array in which a comma is followed directly
\* by the closing bracket fails, the object with "Expected string key", and
\* never yields a success result.
Cex_C9_TrailingCommaRejected ==
  [][AtTrailingComma =>
       /\ pc' = "done"
       /\ result'.error # NoError
       /\ pc = "object" => result'.error.reason = "Expected string key"]_vars

\* C9: a comma that follows a member or an element and is followed, after
\* optional white space, directly by the closing '}' or ']' is skipped: the
\* object or array is closed there without an error, and the text parses as
\* the text without that comma does, with the same value on success.
Thm_C9_TrailingCommaSkipped ==
  /\ []((Returned /\ Plain(input)) =>
          \A a \in TrailingCommas(input, {"}", "]"}) :
            LastNonWhiteBefore(input, a) \notin {"{", "[", ",", Undefined} =>
              LET without == parseJsonWithSourceMap(RemoveAt(input, a)) IN
              /\ Success <=> without.error = NoError
              /\ Success => result.data = without.data)
  /\ [][AtTrailingComma =>
          LET f == Top(Conf) IN
          /\ ~(pc' = "done" /\ result'.error # NoError)
          /\ Len(stack') = Len(stack) - 1
          /\ MapHas(sourceMap', f.path)
          /\ MapGet(sourceMap', f.path).start = f.start.i
          /\ MapGet(sourceMap', f.path).end = FirstNonWhite(input, i + 1) + 1]_vars

\* A successful parse of an object with a member and a trailing comma.
Witness_C9_TrailingCommaAccepted ==
  /\ Success
  /\ Plain(input)
  /\ result.data.t = "obj"
  /\ Len(result.data.v) >= 1
  /\ \E a \in TrailingCommas(input, {"}"}) :
       /\ LastNonWhiteBefore(input, a) \notin {"{", "[", ",", Undefined}
       /\ FirstNonWhite(input, a + 1) = MapGet(result.sourceMap, Root).end - 1

NaNLiteral == <<"N", "a", "N">>
InfinityLiteral == <<"I", "n", "f", "i", "n", "i", "t", "y">>
NonStandard == {NaNLiteral, InfinityLiteral, <<"-">> \o InfinityLiteral}

\* The value the caller of parseValue has received in the next state.
Delivered(v) ==
  IF stack = <<>> THEN pc' = "eof" /\ data' = v
  ELSE LET n == Len(stack) IN
       /\ Len(stack') = n
       /\ IF stack[n].kind = "obj"
          THEN /\ pc' = "object"
               /\ \E m \in 1..Len(stack'[n].result) :
                    stack'[n].result[m] = [k |-> stack[n].key, v |-> v]
          ELSE /\ pc' = "array"
               /\ stack'[n].result = Append(stack[n].result, v)

\* C10: NaN, Infinity and -Infinity, as the top-level value, as a member's
\* value or as an element, parse to null without an error, and the entry
\* recorded for the path spans the whole literal, the '-' included; a text
\* that is one of them yields the success result null.
Thm_C10_Normalization ==
  /\ [](Returned /\ Trim(input) \in NonStandard => Success /\ result.data = Null)
  /\ [][\A lit \in NonStandard :
          LET s == skipWhitespace(input, Cur(Conf)) IN
          (pc = "value" /\ Slice(input, s.i, s.i + Len(lit)) = lit) =>
            /\ Delivered(Null)
            /\ MapHas(sourceMap', path)
            /\ MapGet(sourceMap', path) =
                 [line |-> s.line, column |-> s.column,
                  start |-> s.i, end |-> s.i + Len(lit)]]_vars

\* A successful parse of an array whose second element is -Infinity.
Witness_C10_NegativeInfinityElement ==
  /\ Success
  /\ result.data.t = "arr"
  /\ Len(result.data.v) = 2
  /\ result.data.v[2] = Null
  /\ LET loc == MapGet(result.sourceMap, Root \o <<".", "1">>) IN
     /\ loc.end - loc.start = 9
     /\ CharAt(input, loc.start) = "-"

\* C11: the text Prettify writes for a parsed value v parses again without
\* an error to a value equal to v: when the timer of handleFormat fires on
\* the serialisation of parsedData, no error is shown and parsedData is the
\* same value as before.
Cex_C11_RoundTrip ==
  [][\A t \in timers :
       (~t.loading /\ timers' = timers \ {t} /\ t.text = stringify(parsedData))
         => (appError' = NoAppError /\ parsedData' = parsedData)]_vars

\* The reasons of the errors the parser raises.
Reasons ==
  {"Unexpected character", "Expected ','", "Expected string key", "Expected ':'",
   "Expected '}'", "Expected ']'", "Unterminated string", "Invalid number",
   "Expected 'true'", "Expected 'false'", "Expected 'null'", "Expected 'NaN'",
   "Expected 'Infinity'", EOFMessage}

\* C12: the message of every failure is a reason with the cursor's 1-based
\* line and column at the violation; when no production matches the
\* character at the start of a value, they are the line and column of that
\* character.
Thm_C12_ErrorPosition ==
  Failure =>
    /\ result.error.reason \in Reasons
    /\ result.error.line = line /\ result.error.column = column
    /\ result.error.line >= 1 /\ result.error.column >= 1
    /\ result.error.reason = "Unexpected character" =>
         result.error.arg = <<CharAt(input, i)>>
    /\ Plain(input) =>
         /\ i <= Len(input)
         /\ result.error.line = LineAt(input, i)
         /\ result.error.column = ColumnAt(input, i)

\* The failure on the '}' that stands where a member's value should start,
\* on the second line of the text.
Witness_C12_UnexpectedBrace ==
  /\ Failure
  /\ result.error.reason = "Unexpected character"
  /\ result.error.arg = <<"}">>
  /\ result.error.line = 2
  /\ result.error.column = 7
  /\ CharAt(input, i) = "}"

\* C13: a cursor move resolves to no path exactly when no entry's inclusive
\* span contains the offset: always without a source map, and with the map
\* of a successful parse exactly for the offsets outside [root.start,
\* root.end]; every offset inside resolves to a path, which becomes the
\* active path.
Thm_C13_ResolverNullCase ==
  /\ [](~appSourceMap.isNull =>
          LET m == appSourceMap.map
              root == MapGet(m, Root)
          IN /\ MapHas(m, Root)
             /\ \A o \in CursorOffsets \cup (0..(root.end + 1)) :
                  /\ resolvePath(m, o) = NoPath <=> Containing(m, o) = {}
                  /\ resolvePath(m, o) = NoPath <=> (o < root.start \/ o > root.end))
  /\ [][\A o \in CursorOffsets :
          handleCursorMove(o) =>
            IF appSourceMap.isNull \/ resolvePath(appSourceMap.map, o) = NoPath
            THEN activePath' = activePath
            ELSE activePath' = resolvePath(appSourceMap.map, o)]_vars

\* The cursor resolved to the root of a document that has white space
\* before and after it.
Witness_C13_PaddedRootResolved ==
  /\ ~appSourceMap.isNull
  /\ MapHas(appSourceMap.map, Root)
  /\ MapGet(appSourceMap.map, Root).start > 0
  /\ MapGet(appSourceMap.map, Root).end < Len(input)
  /\ activePath = Root

\* C14: parseLooseJson(text) throws if and only if parseJsonWithSourceMap(text)
\* reports an error, and the Error thrown carries that message; otherwise it
\* returns the data of the success result, a parsed null included.
Thm_C14_LooseWrapper ==
  loose # NotCalled =>
    LET r == parseJsonWithSourceMap(input) IN
    /\ loose.outcome = "thrown" <=> r.error # NoError
    /\ loose.outcome = "returned" <=> r.error = NoError
    /\ loose.outcome = "thrown" => loose.message = r.error /\ loose.message.reason # ""
    /\ loose.outcome = "returned" => loose.data = r.data

\* parseLooseJson returned the null of a text that is the literal null.
Witness_C14_ReturnedNull ==
  /\ loose.outcome = "returned"
  /\ loose.data = Null
  /\ Trim(input) = <<"n", "u", "l", "l">>

-----------------------------------------------------------------------------
\* The positions of the quotes of a text, in ascending order.
RECURSIVE QuotePositions(_, _)
QuotePositions(text, k) ==
  IF k > Len(text) THEN <<>>
  ELSE (IF text[k] = "\"" THEN <<k>> ELSE <<>>) \o QuotePositions(text, k + 1)

\* The keys of a text without backslash, as written: the quoted strings
\* that a colon follows.
SourceKeys(text) ==
  LET qs == QuotePositions(text, 1)
      written == [n \in 1..(Len(qs) \div 2) |->
                    [key |-> SubSeq(text, qs[2 * n - 1] + 1, qs[2 * n] - 1),
                     colon |-> CharAt(text, FirstNonWhite(text, qs[2 * n])) = ":"]]
  IN SelectSeq(written, LAMBDA w : w.colon)

\* The first appearances of the keys of a sequence of written keys.
RECURSIVE FirstAppearances(_, _)
FirstAppearances(written, seen) ==
  IF written = <<>> THEN <<>>
  ELSE IF Head(written).key \in seen THEN FirstAppearances(Tail(written), seen)
  ELSE <<Head(written).key>> \o FirstAppearances(Tail(written), seen \cup {Head(written).key})

\* A text with one object and no array outside its strings.
FlatObjectText(text) ==
  /\ Cardinality({j \in 1..Len(text) : text[j] = "{" /\ QuotesBefore(text, j - 1) % 2 = 0}) = 1
  /\ \A j \in 1..Len(text) : text[j] = "[" => QuotesBefore(text, j - 1) % 2 = 1

\* C15: the members of a parsed object are in the order in which their keys
\* first appear in the text: on success with an object of scalars as the
\* root, the keys of result.data, as Object.keys enumerates them, are the
\* first appearances of the keys written in the text.
Cex_C15_KeyOrder ==
  (Success /\ result.data.t = "obj" /\ FlatObjectText(input) /\ Plain(input))
    => [k \in 1..Len(result.data.v) |-> result.data.v[k].k]
         = FirstAppearances(SourceKeys(input), {})

-----------------------------------------------------------------------------
\* C16: on success the line of every entry is 1 plus the number of line
\* feeds of the text before the entry's start, whether a line feed stands in
\* white space or inside a string, raw or after a backslash: the line of the
\* editor on which the value begins.
Cex_C16_LineTracking ==
  Success =>
    \A k \in 1..Len(sourceMap) :
      sourceMap[k].loc.line = LineAt(input, sourceMap[k].loc.start)

-----------------------------------------------------------------------------
\* A text that starts with a string whose first character is a \u escape.
StartsWithEscape(text) == Len(text) >= 3 /\ SubSeq(text, 1, 3) = <<"\"", "\\", "u">>

\* C17: a \u escape is accepted only with four hex digits behind it, and
\* then appends the one code unit they name and consumes nothing else: on
\* success of a text that starts with such an escape, the four characters
\* behind the u are hex digits, the first code unit of the string is their
\* value, and the string ends with the first quote behind them.
Cex_C17_UnicodeEscape ==
  (Success /\ StartsWithEscape(input)) =>
    LET ds == Slice(input, 3, 7) IN
    /\ Len(ds) = 4
    /\ \A k \in 1..Len(ds) : IsHex(ds[k])
    /\ result.data.t = "str"
    /\ Head(result.data.v) = fromCharCode(Num(HexToNat(ds), 0))
    /\ \A o \in 7..(MapGet(sourceMap, Root).end - 2) : input[o + 1] # "\""

-----------------------------------------------------------------------------
\* The step in which the innermost open object or array returns.
Closes == Len(stack') = Len(stack) - 1

\* The value the innermost open object or array has built so far.
Built(f) == IF f.kind = "obj" THEN Obj(f.result) ELSE Arr(f.result)

\* C18: the entry of an object or array is written only after the entries
\* of its members and their descendants: the step in which a composite
\* returns finds an entry for every path below its own and writes the entry
\* of its own path and no other, and no step writes the entry of an object
\* or array that is still open after it.
Thm_C18_ChildrenBeforeParent ==
  [][/\ Closes =>
          LET f == stack[Len(stack)] IN
          /\ ViewerPaths(Built(f), f.path) \ {f.path} \subseteq MapKeys(sourceMap)
          /\ MapKeys(sourceMap') = MapKeys(sourceMap) \cup {f.path}
          /\ MapGet(sourceMap', f.path).start = f.start.i
          /\ \A q \in MapKeys(sourceMap) \ {f.path} :
                MapGet(sourceMap', q) = MapGet(sourceMap, q)
     /\ \A k \in 1..Len(stack') :
          LET g == stack'[k] IN
          IF MapHas(sourceMap, g.path)
          THEN MapGet(sourceMap', g.path) = MapGet(sourceMap, g.path)
          ELSE ~MapHas(sourceMap', g.path)]_vars

\* An object or array inside an open one has returned: its entry is the last
\* one written and an entry of a path below its own was written before.
Witness_C18_InnerCompositeRecorded ==
  /\ pc \in {"object", "array"}
  /\ stack # <<>>
  /\ sourceMap # <<>>
  /\ LET last == sourceMap[Len(sourceMap)] IN
     /\ CharAt(input, last.loc.start) \in {"{", "["}
     /\ \E j \in 1..(Len(sourceMap) - 1) : IsChildPath(last.path, sourceMap[j].path)

-----------------------------------------------------------------------------
\* A text that the bracket close completes to a document, its last member
\* or element not followed by a comma.
Completes(text, close) ==
  /\ LastNonWhiteBefore(text, Len(text)) # ","
  /\ parseJsonWithSourceMap(Append(text, close)).error = NoError

\* C19: a text that ends while a string, an object or an array is open is
\* never parsed with success. A document cut short fails: with
\* "Unterminated string" when it ends inside a string, with "Expected '}'" ("Expected ']'") when only the
\* closing bracket of an object (array) is missing. No text without
\* backslash that has an odd number of quotes is parsed with success. A step
\* taken with the cursor at or behind the end of the text ends the parse
\* with an error.
Thm_C19_TruncationSafety ==
  /\ [](Returned /\ input \in Truncations =>
          /\ Failure
          /\ QuotesBefore(input, Len(input)) % 2 = 1
               => result.error.reason = "Unterminated string"
          /\ (QuotesBefore(input, Len(input)) % 2 = 0 /\ Completes(input, "}"))
               => result.error.reason = "Expected '}'"
          /\ (QuotesBefore(input, Len(input)) % 2 = 0 /\ Completes(input, "]"))
               => result.error.reason = "Expected ']'")
  /\ [](Returned /\ QuotesBefore(input, Len(input)) % 2 = 1
          /\ (\A j \in 1..Len(input) : input[j] # "\\") => Failure)
  /\ [][(i >= Len(input) /\ pc \in {"value", "object", "array"})
          => (pc' = "done" /\ result'.error # NoError /\ sourceMap' = sourceMap)]_vars

\* The object {"a":1 without its closing bracket: the member is stored and
\* the parse has failed at the end of the text.
Witness_C19_MissingBrace ==
  /\ Failure
  /\ result.error.reason = "Expected '}'"
  /\ i = Len(input)
  /\ Len(stack) = 1
  /\ stack[1].result # <<>>

-----------------------------------------------------------------------------
\* A run of digits, possibly empty, with at most one of the marks in it.
DigitsAround(t, marks) ==
  Cardinality({k \in 1..Len(t) : t[k] \in marks}) <= 1
  /\ \A k \in 1..Len(t) : t[k] \in Digits \cup marks

\* The form of a number token: an optional '-', digits, optionally a '.' and
\* digits, optionally an 'e' or 'E', an optional sign and digits.
NumberForm(t) ==
  LET body == IF t # <<>> /\ Head(t) = "-" THEN Tail(t) ELSE t
      ePos == FirstIn(body, {"e", "E"})
      mant == IF ePos = 0 THEN body ELSE SubSeq(body, 1, ePos - 1)
      expo == IF ePos = 0 THEN <<>> ELSE SubSeq(body, ePos + 1, Len(body))
      run == IF expo # <<>> /\ Head(expo) \in {"+", "-"} THEN Tail(expo) ELSE expo
  IN DigitsAround(mant, {"."}) /\ DigitsAround(run, {})

\* The longest prefix of the text from offset s on that has the form.
NumberToken(text, s) ==
  LET lens == {n \in 0..(Len(text) - s) : NumberForm(SubSeq(text, s + 1, s + n))}
  IN SubSeq(text, s + 1, s + (CHOOSE n \in lens : \A m \in lens : m <= n))

\* C20: where a value starts with '-' (no 'I' behind it) or a digit, the
\* parser consumes the longest prefix of the number form; when Number of
\* that token is NaN the parse fails with "Invalid number", the cursor behind
\* the token, otherwise the value is Number of the token and the entry of
\* the path spans exactly the token. So 01 and -.1 are numbers, - and 1e
\* are invalid.
Thm_C20_NumberProduction ==
  /\ [](Returned =>
          /\ input \in {<<"0", "1">>, <<"-", ".", "1">>, <<"1", ".">>} => Success /\ result.data.t = "num"
          /\ input \in {<<"-">>, <<"1", "e">>, <<"-", ".">>, <<"1", "e", "+">>}
               => Failure /\ result.error.reason = "Invalid number")
  /\ [][LET s == skipWhitespace(input, Cur(Conf))
            char == CharAt(input, s.i)
            token == NumberToken(input, s.i)
            k == s.i + Len(token)
        IN (/\ pc = "value"
            /\ (char = "-" /\ CharAt(input, s.i + 1) # "I") \/ char \in Digits) =>
             IF Number(token) = NaN
             THEN /\ pc' = "done"
                  /\ result'.error.reason = "Invalid number"
                  /\ i' = k
                  /\ result'.error.column = s.column + Len(token)
             ELSE /\ pc' # "done"
                  /\ (stack = <<>> \/ stack[Len(stack)].kind = "arr"
                        \/ stack[Len(stack)].key # ProtoKey) => Delivered(Number(token))
                  /\ MapHas(sourceMap', path)
                  /\ MapGet(sourceMap', path) =
                       [line |-> s.line, column |-> s.column, start |-> s.i, end |-> k]]_vars

\* The text -.1 and the like: a number without integer part is the root,
\* spanning the whole text.
Witness_C20_EmptyIntegerPart ==
  /\ Success
  /\ CharAt(input, 0) = "-"
  /\ CharAt(input, 1) = "."
  /\ result.data.t = "num"
  /\ MapGet(result.sourceMap, Root).end = Len(input)

-----------------------------------------------------------------------------
\* The points of control of the parser.
ControlPoints == {"value", "object", "array", "eof", "done"}

\* C21: a parse ends after finitely many steps with a success or a failure
\* result: before its end the offset is within the text and a step is
\* possible, the offset never decreases, and every step advances the offset
\* or ends the parse, but for the step that enters the first iteration of
\* parseArray's loop, whose call of parseValue is the next step. So a parse
\* of a text of n characters takes at most 2n + 2 steps.
Thm_C21_Termination ==
  /\ [](/\ pc \in ControlPoints
        /\ pc # "done" => i <= Len(input)
        /\ pc \in {"object", "array"} => stack # <<>>
        /\ Returned => (Success \/ Failure))
  /\ [][/\ i' >= i
        /\ \/ pc' = "done"
           \/ i' > i
           \/ pc = "array" /\ pc' = "value" /\ stack[Len(stack)].initial]_vars

\* A parse of a text with white space, a string, a number, a member and
\* an element has ended with the offset at the end of the text.
Witness_C21_AllLoopsRun ==
  /\ Returned
  /\ i = Len(input)
  /\ \E a, b, c, d \in 1..Len(input) :
       /\ input[a] \in WhiteSpace /\ input[b] = "\"" /\ input[c] \in Digits
       /\ input[d] = ","
  /\ Len(result.sourceMap) >= 3

-----------------------------------------------------------------------------
\* The entries of a map in the opposite order.
Reversed(map) == [k \in 1..Len(map) |-> map[Len(map) + 1 - k]]

\* C22: in the map of a successful parse, any two entries whose inclusive
\* spans contain the same offset have different widths: the span of one
\* lies strictly inside the span of the other, and its path is below the
\* other's path. So the resolver finds the same path when it goes through
\* the entries in the opposite order.
Thm_C22_NoResolverTies ==
  Success =>
    \A o \in 0..(Len(input) + 1) :
      LET m == result.sourceMap IN
      /\ \A a, b \in Containing(m, o) :
           a # b =>
             /\ Width(m[a]) # Width(m[b])
             /\ Width(m[a]) < Width(m[b]) =>
                  /\ m[b].loc.start < m[a].loc.start
                  /\ m[a].loc.end < m[b].loc.end
                  /\ IsChildPath(m[b].path, m[a].path)
      /\ resolvePath(Reversed(m), o) = resolvePath(m, o)

\* An offset on the boundary of two sibling values that lie in a composite
\* inside the root: the first ends on it, the second starts behind it.
Witness_C22_SharedBoundary ==
  /\ Success
  /\ \E o \in 0..Len(input) :
       LET m == result.sourceMap IN
       /\ Cardinality(Containing(m, o)) >= 3
       /\ \E a \in Containing(m, o), b \in 1..Len(m) :
            m[a].loc.end = o /\ m[b].loc.start = o + 1

-----------------------------------------------------------------------------
\* C23: every text that JSON.parse accepts is parsed with success to the
\* value JSON.parse gives: the parser adds texts to strict JSON and neither
\* rejects a JSON document nor changes its value.
Cex_C23_SupersetOfStrictJSON ==
  (Returned /\ JSONparse(input).ok) =>
    (Success /\ result.data = JSONparse(input).v)

-----------------------------------------------------------------------------
\* The number of brackets open behind the first j characters of a text
\* without backslash.
Depth(text, j) ==
  LET outside(n) == QuotesBefore(text, n - 1) % 2 = 0 IN
  Cardinality({n \in 1..j : text[n] \in {"{", "["} /\ outside(n)})
    - Cardinality({n \in 1..j : text[n] \in {"}", "]"} /\ outside(n)})

\* The offset behind the last character before offset e that is no white space.
RECURSIVE EndBefore(_, _)
EndBefore(text, e) ==
  IF e > 0 /\ text[e] \in WhiteSpace THEN EndBefore(text, e - 1) ELSE e

\* The members of the root object of a well-formed text without backslash,
\* as written: the key, and the offsets at which the value starts and ends.
RootMembers(text) ==
  LET qs == QuotePositions(text, 1)
      colon(n) == FirstNonWhite(text, qs[2 * n])
      start(n) == FirstNonWhite(text, colon(n) + 1)
      stop(n) == CHOOSE e \in start(n)..Len(text) :
                   /\ CharAt(text, e) \in {",", "}"} /\ QuotesBefore(text, e) % 2 = 0
                   /\ Depth(text, e) = 1
                   /\ \A d \in start(n)..(e - 1) :
                        ~(/\ CharAt(text, d) \in {",", "}"} /\ QuotesBefore(text, d) % 2 = 0
                          /\ Depth(text, d) = 1)
      written == [n \in 1..(Len(qs) \div 2) |->
                    [key |-> SubSeq(text, qs[2 * n - 1] + 1, qs[2 * n] - 1),
                     member |-> Depth(text, qs[2 * n - 1]) = 1 /\ CharAt(text, colon(n)) = ":",
                     n |-> n]]
  IN [k \in 1..Len(SelectSeq(written, LAMBDA w : w.member)) |->
        LET w == SelectSeq(written, LAMBDA x : x.member)[k] IN
        [key |-> w.key, start |-> start(w.n), end |-> EndBefore(text, stop(w.n))]]

\* C24: when the root object repeats a key, the returned data holds under
\* that key the value of the last occurrence, and the entry of the key's
\* path holds the span and line of that same occurrence.
Cex_C24_DuplicateKeys ==
  (Success /\ Plain(input) /\ CharAt(input, FirstNonWhite(input, 0)) = "{") =>
    LET ms == RootMembers(input) IN
    \A n \in 1..Len(ms) :
      ((\E j \in 1..(n - 1) : ms[j].key = ms[n].key)
         /\ \A j \in (n + 1)..Len(ms) : ms[j].key # ms[n].key) =>
        LET last == parseJsonWithSourceMap(Slice(input, ms[n].start, ms[n].end)).data
            keyPath == Root \o <<".">> \o ms[n].key
            m == result.sourceMap
        IN /\ \E k \in 1..Len(result.data.v) :
                result.data.v[k].k = ms[n].key /\ result.data.v[k].v = last
           /\ MapHas(m, keyPath)
           /\ MapGet(m, keyPath).start = ms[n].start
           /\ MapGet(m, keyPath).end = ms[n].end
           /\ MapGet(m, keyPath).line = LineAt(input, ms[n].start)

-----------------------------------------------------------------------------
\* The lines of a text as the line feeds divide it, without the white space
\* around them, the blank ones left out.
RECURSIVE LinesOf(_, _)
LinesOf(text, from) ==
  LET feeds == {k \in from..Len(text) : text[k] = "\n"}
      stop == IF feeds = {} THEN Len(text) + 1 ELSE CHOOSE k \in feeds : \A f \in feeds : k <= f
      here == Trim(SubSeq(text, from, stop - 1))
  IN (IF here = <<>> THEN <<>> ELSE <<here>>)
       \o (IF feeds = {} THEN <<>> ELSE LinesOf(text, stop + 1))

LooseAccepts(text) == parseJsonWithSourceMap(text).error = NoError

\* C25: tryParseJSONL returns one value for every line that is not blank, in
\* the order of the lines: the value of JSON.parse where it accepts the
\* line, that of parseLooseJson else; when a line is rejected by both, the
\* call throws the error JSON.parse threw for the first such line and
\* returns no list.
Thm_C25_JsonlFallback ==
  jsonl # NoList =>
    LET ls == LinesOf(input, 1)
        rejected == {k \in 1..Len(ls) : ~JSONparse(ls[k]).ok /\ ~LooseAccepts(ls[k])}
    IN IF rejected = {}
       THEN /\ jsonl.outcome = "returned"
            /\ jsonl.list = [k \in 1..Len(ls) |->
                                IF JSONparse(ls[k]).ok THEN JSONparse(ls[k]).v
                                ELSE parseJsonWithSourceMap(ls[k]).data]
       ELSE /\ jsonl.outcome = "thrown"
            /\ jsonl.list = <<>>
            /\ jsonl.error = SyntaxError(ls[CHOOSE k \in rejected : \A r \in rejected : k <= r])

\* A list with a value of each parser, a blank line between them.
Witness_C25_BothParsersUsed ==
  /\ jsonl.outcome = "returned" /\ Len(jsonl.list) = 2
  /\ jsonl.list[1] = Num(1, 0) /\ jsonl.list[2] = Null
  /\ Len(splitLines(input, <<>>)) = 3

\* A call that throws at its third line.
Witness_C25_ThrownAfterValues ==
  /\ jsonl.outcome = "thrown" /\ Len(LinesOf(input, 1)) = 3
  /\ JSONparse(LinesOf(input, 1)[1]).ok /\ LooseAccepts(LinesOf(input, 1)[2])

-----------------------------------------------------------------------------
\* C26: a selection of the node path p sets the active path to p, and when
\* the retained source map has an entry for p it sets the highlighted line
\* to the line of that entry, which is then the line of the active path.
Thm_C26_NodeSelection ==
  [][\A selected \in SelectablePaths(parsedData, Root) :
       handlePathSelect(selected) =>
         /\ activePath' = selected
         /\ (~appSourceMap.isNull /\ MapHas(appSourceMap.map, selected)) =>
              /\ highlightLine' = MapGet(appSourceMap.map, selected).line
              /\ highlightLine' = MapGet(appSourceMap'.map, activePath').line
         /\ (appSourceMap.isNull \/ ~MapHas(appSourceMap.map, selected)) =>
              highlightLine' = highlightLine]_vars

\* The array on the second line of the sample is selected.
Witness_C26_SecondLineSelected ==
  /\ ~appSourceMap.isNull /\ MapHas(appSourceMap.map, activePath)
  /\ activePath = Root \o <<".", "1">>
  /\ highlightLine = 2
  /\ MapGet(appSourceMap.map, activePath).line = 2

-----------------------------------------------------------------------------
\* The values the parses of the typed texts display, the texts Prettify
\* writes for them, and with them every text a parse is requested for.
ValuesOf(texts) ==
  LET constructed == [parsedData |-> Null, sourceMap |-> NoMap, error |-> NoAppError,
                      format |-> "JSON"]
  IN {performParseForced(t, f, constructed).parsedData : t \in texts, f \in Formats}
       \ {Null}

PrettyTexts == {stringify(v) : v \in ValuesOf(TypedTexts)}

RequestedTexts == TypedTexts \cup PrettyTexts

\* C27: whenever no parsed data is displayed or an error is shown, no source
\* map is retained; a retained source map is the one of the parse that
\* produced the displayed data: the parse of a text that gives this data
\* and this map.
Cex_C27_RetainedStateConsistency ==
  /\ (parsedData = Null \/ appError # NoAppError) => appSourceMap.isNull
  /\ ~appSourceMap.isNull =>
       \E t \in RequestedTexts :
         LET json == parseJsonWithSourceMap(t) IN
         /\ json.error = NoError
         /\ json.data = parsedData
         /\ json.sourceMap = appSourceMap.map

-----------------------------------------------------------------------------
\* No timer and no file read is pending.
Quiescent == timers = <<>> /\ reads = {}

-----------------------------------------------------------------------------
\* C29: whenever the loading indicator is on, it is off at some later time,
\* whether the parse succeeds or fails and whether the file is read or not.
Cex_C29_LoadingIndicatorLiveness == isLoading ~> ~isLoading

-----------------------------------------------------------------------------
\* C30: a change of the active path opens a closed node exactly when the new
\* active path is the node's path followed by '.' and further segments; any
\* other active path leaves the node as it is.
Cex_C30_AutoExpand ==
  [][\A p \in NodePaths :
       (p # activePath /\ activePath' = p /\ node.path # p) =>
         (expanded' <=> (expanded \/ IsChildPath(node.path, p)))]_vars

====
